---------------------------- MODULE Spec2Model ----------------------------
(***************************************************************************)
(* Collapsi: bitboard move generator and memoised minimax solver.          *)
(*                                                                         *)
(* A 16-bit bitboard (bb_t) is modelled as the set of its set bit indices: *)
(* a | b is union, a & b is intersection, a & ~b is set difference and     *)
(* bit(i) is {i}.                                                          *)
(***************************************************************************)
EXTENDS Integers, Sequences, FiniteSets, TLC

VARIABLES
  state,                  \* the BitState the caller holds
  call,                   \* the last completed call: operation, arguments, result
  cache_,                 \* Solver::cache_   : key -> Answer
  edges_,                 \* Solver::edges_   : key -> sequence of child keys
  top_moves_,             \* Solver::top_moves_
  top_move_plies_,        \* Solver::top_move_plies_
  top_move_wins_,         \* Solver::top_move_wins_
  capture_edges_,         \* Solver::capture_edges_
  collect_root_metrics_,  \* Solver::collect_root_metrics_
  enum,                   \* the enumerator process: position, parameters, locals
  files                   \* the files of the enumerator: name -> content

gameVars == <<state, call>>
solverVars == <<cache_, edges_, top_moves_, top_move_plies_, top_move_wins_,
                capture_edges_, collect_root_metrics_>>
enumVars == <<enum, files>>
vars == <<state, call, cache_, edges_, top_moves_, top_move_plies_,
          top_move_wins_, capture_edges_, collect_root_metrics_, enum, files>>

\* No enumerator process and no file: the programs that only solve.
NoEnum == [pc |-> "none"]
NoFiles == <<>>
EnumIdle == enum = NoEnum /\ files = NoFiles

-----------------------------------------------------------------------------
(* Bitboard geometry                                                       *)

BOARD_W == 4
BOARD_H == 4
BOARD_N == BOARD_W * BOARD_H

Cells == 0 .. (BOARD_N - 1)

bit(idx) == {idx}

\* NEI_RIGHT without the wrap of the last column.
NEI_RIGHT_NoWrap ==
  <<  1,  2,  3,  3,
      5,  6,  7,  7,
      9, 10, 11, 11,
     13, 14, 15, 15 >>

\* The neighbour tables, indexed by cell + 1.
NEI_UP ==
  << 12, 13, 14, 15,
      0,  1,  2,  3,
      4,  5,  6,  7,
      8,  9, 10, 11 >>

NEI_DOWN ==
  <<  4,  5,  6,  7,
      8,  9, 10, 11,
     12, 13, 14, 15,
      0,  1,  2,  3 >>

NEI_LEFT ==
  <<  3,  0,  1,  2,
      7,  4,  5,  6,
     11,  8,  9, 10,
     15, 12, 13, 14 >>

NEI_RIGHT ==
  <<  1,  2,  3,  0,
      5,  6,  7,  4,
      9, 10, 11,  8,
     13, 14, 15, 12 >>

\* Lowest set bit of a bitboard, 0 when the bitboard is empty.
piece_idx(bitboard) ==
  IF bitboard \cap Cells = {} THEN 0
  ELSE CHOOSE c \in bitboard \cap Cells : \A d \in bitboard \cap Cells : c <= d

\* steps_from that returns 4 for a cell in no card mask.
steps_from_DefaultFour(s, cellIndex) ==
  IF cellIndex \in s.bbA THEN 1
  ELSE IF cellIndex \in s.bb2 THEN 2
  ELSE IF cellIndex \in s.bb3 THEN 3
  ELSE 4

steps_from(s, cellIndex) ==
  IF cellIndex \in s.bbA THEN 1
  ELSE IF cellIndex \in s.bb2 THEN 2
  ELSE IF cellIndex \in s.bb3 THEN 3
  ELSE IF cellIndex \in s.bb4 THEN 4
  ELSE 1

RECURSIVE dfs_paths_LandOnOpponent(_, _, _, _, _, _)
\* dfs_paths without the test of the opponent's cell at the landing.
dfs_paths_LandOnOpponent(currentIndex, startIndex, opponentIndex, remainingSteps, blockedMask, visitedMask) ==
  IF remainingSteps = 0
  THEN IF currentIndex # startIndex THEN bit(currentIndex) ELSE {}
  ELSE LET tryStep(nextIndex) ==
             IF nextIndex \in blockedMask THEN {}
             ELSE IF nextIndex \in visitedMask THEN {}
             ELSE dfs_paths_LandOnOpponent(nextIndex, startIndex,
                            opponentIndex, remainingSteps - 1, blockedMask,
                            visitedMask \cup bit(nextIndex))
       IN  tryStep(NEI_UP[currentIndex + 1])
           \cup tryStep(NEI_DOWN[currentIndex + 1])
           \cup tryStep(NEI_LEFT[currentIndex + 1])
           \cup tryStep(NEI_RIGHT[currentIndex + 1])

RECURSIVE dfs_paths_AroundOpponent(_, _, _, _, _, _)
\* dfs_paths that does not step on the opponent's cell on its way.
dfs_paths_AroundOpponent(currentIndex, startIndex, opponentIndex, remainingSteps, blockedMask, visitedMask) ==
  IF remainingSteps = 0
  THEN IF currentIndex # startIndex /\ currentIndex # opponentIndex
       THEN bit(currentIndex) ELSE {}
  ELSE LET tryStep(nextIndex) ==
             IF nextIndex \in blockedMask THEN {}
             ELSE IF nextIndex \in visitedMask THEN {}
             ELSE IF nextIndex = opponentIndex THEN {}
             ELSE dfs_paths_AroundOpponent(nextIndex, startIndex,
                            opponentIndex, remainingSteps - 1, blockedMask,
                            visitedMask \cup bit(nextIndex))
       IN  tryStep(NEI_UP[currentIndex + 1])
           \cup tryStep(NEI_DOWN[currentIndex + 1])
           \cup tryStep(NEI_LEFT[currentIndex + 1])
           \cup tryStep(NEI_RIGHT[currentIndex + 1])

RECURSIVE dfs_paths(_, _, _, _, _, _)
\* The destinations dfs_paths ORs into outDestinationsMask.
dfs_paths(currentIndex, startIndex, opponentIndex, remainingSteps, blockedMask, visitedMask) ==
  IF remainingSteps = 0
  THEN IF currentIndex # startIndex /\ currentIndex # opponentIndex
       THEN bit(currentIndex) ELSE {}
  ELSE LET tryStep(nextIndex) ==
             IF nextIndex \in blockedMask THEN {}
             ELSE IF nextIndex \in visitedMask THEN {}
             ELSE dfs_paths(nextIndex, startIndex, opponentIndex,
                            remainingSteps - 1, blockedMask,
                            visitedMask \cup bit(nextIndex))
       IN  tryStep(NEI_UP[currentIndex + 1])
           \cup tryStep(NEI_DOWN[currentIndex + 1])
           \cup tryStep(NEI_LEFT[currentIndex + 1])
           \cup tryStep(NEI_RIGHT[currentIndex + 1])

enumerate_destinations(s, startIndex, stepCount, opponentIndex) ==
  dfs_paths(startIndex, startIndex, opponentIndex, stepCount,
            s.bbCollapsed, bit(startIndex))

\* apply_move that does not hand the turn over.
apply_move_NoFlip(s, startIndex, destIndex) ==
  IF s.turn = 0
  THEN [s EXCEPT !.bbCollapsed = s.bbCollapsed \cup bit(startIndex),
                 !.bbX = (s.bbX \ bit(startIndex)) \cup bit(destIndex)]
  ELSE [s EXCEPT !.bbCollapsed = s.bbCollapsed \cup bit(startIndex),
                 !.bbO = (s.bbO \ bit(startIndex)) \cup bit(destIndex)]

\* apply_move that also takes the collapsed cell's card off its mask.
apply_move_ClearsCard(s, startIndex, destIndex) ==
  IF s.turn = 0
  THEN [s EXCEPT !.bbCollapsed = s.bbCollapsed \cup bit(startIndex),
                 !.bbA = s.bbA \ bit(startIndex),
                 !.bb2 = s.bb2 \ bit(startIndex),
                 !.bb3 = s.bb3 \ bit(startIndex),
                 !.bb4 = s.bb4 \ bit(startIndex),
                 !.bbX = (s.bbX \ bit(startIndex)) \cup bit(destIndex),
                 !.turn = 1]
  ELSE [s EXCEPT !.bbCollapsed = s.bbCollapsed \cup bit(startIndex),
                 !.bbA = s.bbA \ bit(startIndex),
                 !.bb2 = s.bb2 \ bit(startIndex),
                 !.bb3 = s.bb3 \ bit(startIndex),
                 !.bb4 = s.bb4 \ bit(startIndex),
                 !.bbO = (s.bbO \ bit(startIndex)) \cup bit(destIndex),
                 !.turn = 0]

\* apply_move that collapses the cell moved to, not the cell left.
apply_move_CollapsesDest(s, startIndex, destIndex) ==
  IF s.turn = 0
  THEN [s EXCEPT !.bbCollapsed = s.bbCollapsed \cup bit(destIndex),
                 !.bbX = (s.bbX \ bit(startIndex)) \cup bit(destIndex),
                 !.turn = 1]
  ELSE [s EXCEPT !.bbCollapsed = s.bbCollapsed \cup bit(destIndex),
                 !.bbO = (s.bbO \ bit(startIndex)) \cup bit(destIndex),
                 !.turn = 0]

apply_move(s, startIndex, destIndex) ==
  IF s.turn = 0
  THEN [s EXCEPT !.bbCollapsed = s.bbCollapsed \cup bit(startIndex),
                 !.bbX = (s.bbX \ bit(startIndex)) \cup bit(destIndex),
                 !.turn = 1]
  ELSE [s EXCEPT !.bbCollapsed = s.bbCollapsed \cup bit(startIndex),
                 !.bbO = (s.bbO \ bit(startIndex)) \cup bit(destIndex),
                 !.turn = 0]

-----------------------------------------------------------------------------
(* Solver                                                                  *)

\* The cache key of a state.  hash_state folds pair64 over its eight
\* arguments and mixes the result; the solver is modelled with keys that
\* do not collide, so the key is the tuple of the eight arguments in
\* hash_state's argument order.
StateKey(s) ==
  <<s.bbA, s.bb2, s.bb3, s.bb4, s.bbX, s.bbO, s.bbCollapsed, s.turn>>

\* encode_move with the two nibbles exchanged.
encode_move_Swapped(fromIndex, toIndex) ==
  ((toIndex % 16) * 16) + (fromIndex % 16)

encode_move(fromIndex, toIndex) == ((fromIndex % 16) * 16) + (toIndex % 16)
move_from(encodedMove) == (encodedMove \div 16) % 16
move_to(encodedMove) == encodedMove % 16

NO_MOVE == 255
INF_PLIES == 536870912
U16 == 65536

\* The cell of the side to move and of the other side, as solve_rec
\* computes currentPlayerIndex and opponentIndex.
currentPlayerIndex(s) ==
  IF s.turn = 0 THEN piece_idx(s.bbX) ELSE piece_idx(s.bbO)
opponentIndex(s) ==
  IF s.turn = 0 THEN piece_idx(s.bbO) ELSE piece_idx(s.bbX)

\* destinationsMask of the side to move.
destinationsMask(s) ==
  enumerate_destinations(s, currentPlayerIndex(s),
                         steps_from(s, currentPlayerIndex(s)),
                         opponentIndex(s))

\* The members of a mask in ascending index order, as the loops
\* "for (i = 0; i < BOARD_N; ++i) if (mask & bit(i))" visit them.
MaskOrder(mask) ==
  [i \in 1 .. Cardinality(mask) |->
     CHOOSE c \in mask : Cardinality({d \in mask : d < c}) = i - 1]

\* The comparator without its two tests for a count of one.
ItemLess_ByCount(a, b) == a.opponentRepliesCount < b.opponentRepliesCount

\* The comparator given to std::stable_sort.
ItemLess(a, b) ==
  IF a.opponentRepliesCount = 1 /\ b.opponentRepliesCount # 1 THEN TRUE
  ELSE IF a.opponentRepliesCount # 1 /\ b.opponentRepliesCount = 1 THEN FALSE
  ELSE a.opponentRepliesCount < b.opponentRepliesCount

RECURSIVE stable_sort(_)
\* std::stable_sort under ItemLess: equivalent items keep their order.
stable_sort(items) ==
  IF Len(items) <= 1 THEN items
  ELSE LET n == Len(items)
           rest == stable_sort(SubSeq(items, 1, n - 1))
           x == items[n]
           k == Cardinality({i \in 1 .. (n - 1) : ~ItemLess(x, rest[i])})
       IN  SubSeq(rest, 1, k) \o <<x>> \o SubSeq(rest, k + 1, n - 1)

\* The candidate moves of s with their reply counts, before sorting.
candidateMoves(s) ==
  LET order == MaskOrder(destinationsMask(s))
  IN  [i \in 1 .. Len(order) |->
         [move |-> encode_move(currentPlayerIndex(s), order[i]),
          opponentRepliesCount |->
            Cardinality(destinationsMask(
              apply_move(s, currentPlayerIndex(s), order[i])))]]

orderedMoves(s) == stable_sort(candidateMoves(s))

\* emplace that stores the answer with one ply more than was computed.
emplace_Skewed(cache, key, answer) ==
  IF key \in DOMAIN cache THEN cache
  ELSE cache @@ (key :> [answer EXCEPT !.plies = @ + 1])

emplace(cache, key, answer) ==
  IF key \in DOMAIN cache THEN cache ELSE cache @@ (key :> answer)

\* push_back that puts the child key in front.
push_edge_Front(edges, key, childKey) ==
  IF key \in DOMAIN edges
  THEN [edges EXCEPT ![key] = <<childKey>> \o @]
  ELSE edges @@ (key :> <<childKey>>)

push_edge(edges, key, childKey) ==
  IF key \in DOMAIN edges
  THEN [edges EXCEPT ![key] = Append(@, childKey)]
  ELSE edges @@ (key :> <<childKey>>)

\* The order in which solve_rec examines the moves of s: the stable sort of
\* the candidates.  A solver object carrying the field plain_order stands
\* for the comparison solver that skips the sort.
MoveOrder(sv, s) ==
  IF "plain_order" \in DOMAIN sv THEN candidateMoves(s) ELSE orderedMoves(s)

\* The accumulators of one move before its replies are examined:
\* allOpponentRepliesLeadToOurWin, worstWinPlies, bestLossPliesForThis.
move_acc0 ==
  [allOpponentRepliesLeadToOurWin |-> TRUE,
   worstWinPlies |-> 0,
   bestLossPliesForThis |-> INF_PLIES]

\* note_reply with the test of the reply's win flag inverted.
note_reply_Inverted(acc, replyAnswer) ==
  IF replyAnswer.win
  THEN [acc EXCEPT !.allOpponentRepliesLeadToOurWin = FALSE,
                   !.bestLossPliesForThis =
                      IF replyAnswer.plies + 2 < @
                      THEN replyAnswer.plies + 2 ELSE @]
  ELSE [acc EXCEPT !.worstWinPlies =
                      IF replyAnswer.plies + 2 > @
                      THEN replyAnswer.plies + 2 ELSE @]

\* The accumulators after one reply's answer.
note_reply(acc, replyAnswer) ==
  IF ~replyAnswer.win
  THEN [acc EXCEPT !.allOpponentRepliesLeadToOurWin = FALSE,
                   !.bestLossPliesForThis =
                      IF replyAnswer.plies + 2 < @
                      THEN replyAnswer.plies + 2 ELSE @]
  ELSE [acc EXCEPT !.worstWinPlies =
                      IF replyAnswer.plies + 2 > @
                      THEN replyAnswer.plies + 2 ELSE @]

\* record_edge that pushes the key of the state itself as the child.
record_edge_OwnKey(sv, s, nextState) ==
  IF sv.capture_edges_
  THEN [sv EXCEPT !.edges_ = push_edge(@, StateKey(s), StateKey(s))]
  ELSE sv

\* edges_[stateKey].push_back(childKey) when edges are captured.
record_edge(sv, s, nextState) ==
  IF sv.capture_edges_
  THEN [sv EXCEPT !.edges_ = push_edge(@, StateKey(s), StateKey(nextState))]
  ELSE sv

\* The state after the encoded move of the side to move.
after_move(s, move) == apply_move(s, currentPlayerIndex(s), move_to(move))

\* The three root lists swapped with the ui lists.
swap_top(sv, moves, plies, wins) ==
  [sv EXCEPT !.top_moves_ = moves, !.top_move_plies_ = plies,
             !.top_move_wins_ = wins]

\* finish_win that counts one ply more for a win that is not immediate.
finish_win_Late(sv, s, move, depth, loc, worstWinPlies) ==
  LET pl == IF worstWinPlies = 0 THEN 1 ELSE worstWinPlies + 1
      answer == [win |-> TRUE, best_move |-> move, plies |-> pl % U16]
      sv1 == IF depth = 0
             THEN swap_top(sv, Append(loc.ui_moves, move),
                           Append(loc.ui_plies, pl), Append(loc.ui_wins, 1))
             ELSE sv
  IN  [ans |-> answer,
       sv |-> [sv1 EXCEPT !.cache_ = emplace(@, StateKey(s), answer)]]

\* finish_win without the 1 ply of a win that leaves no reply.
finish_win_NoFloor(sv, s, move, depth, loc, worstWinPlies) ==
  LET pl == worstWinPlies
      answer == [win |-> TRUE, best_move |-> move, plies |-> pl % U16]
      sv1 == IF depth = 0
             THEN swap_top(sv, Append(loc.ui_moves, move),
                           Append(loc.ui_plies, pl), Append(loc.ui_wins, 1))
             ELSE sv
  IN  [ans |-> answer,
       sv |-> [sv1 EXCEPT !.cache_ = emplace(@, StateKey(s), answer)]]

\* The short-circuit return on a winning move.
finish_win(sv, s, move, depth, loc, worstWinPlies) ==
  LET pl == IF worstWinPlies = 0 THEN 1 ELSE worstWinPlies
      answer == [win |-> TRUE, best_move |-> move, plies |-> pl % U16]
      sv1 == IF depth = 0
             THEN swap_top(sv, Append(loc.ui_moves, move),
                           Append(loc.ui_plies, pl), Append(loc.ui_wins, 1))
             ELSE sv
  IN  [ans |-> answer,
       sv |-> [sv1 EXCEPT !.cache_ = emplace(@, StateKey(s), answer)]]

\* The return after the loop over the moves; bestWinMove is never assigned.
finish_loop(sv, s, depth, loc) ==
  LET bestWinMove == NO_MOVE
      bestWinPlies == INF_PLIES
      answer ==
        IF bestWinMove # NO_MOVE
        THEN [win |-> TRUE, best_move |-> bestWinMove,
              plies |-> (IF bestWinPlies = INF_PLIES THEN 1
                         ELSE bestWinPlies) % U16]
        ELSE [win |-> FALSE, best_move |-> loc.bestLossMove,
              plies |-> (IF loc.bestLossPlies < 0 THEN 0
                         ELSE loc.bestLossPlies) % U16]
      sv1 == IF depth = 0
             THEN swap_top(sv, loc.ui_moves, loc.ui_plies, loc.ui_wins)
             ELSE sv
  IN  [ans |-> answer,
       sv |-> [sv1 EXCEPT !.cache_ = emplace(@, StateKey(s), answer)]]

\* note_loss that keeps a move only when it loses later than in 2 plies.
note_loss_NoFloor(loc, move, depth, lossPlies) ==
  LET bestLossPliesForThis == IF lossPlies = INF_PLIES THEN 2 ELSE lossPlies
      better == bestLossPliesForThis > 2 /\ bestLossPliesForThis > loc.bestLossPlies
  IN  [bestLossPlies |-> IF better THEN bestLossPliesForThis
                         ELSE loc.bestLossPlies,
       bestLossMove |-> IF better THEN move ELSE loc.bestLossMove,
       ui_moves |-> IF depth = 0 THEN Append(loc.ui_moves, move)
                    ELSE loc.ui_moves,
       ui_plies |-> IF depth = 0 THEN Append(loc.ui_plies, bestLossPliesForThis)
                    ELSE loc.ui_plies,
       ui_wins |-> IF depth = 0 THEN Append(loc.ui_wins, 0)
                   ELSE loc.ui_wins]

\* note_loss that takes the later move on a tie.
note_loss_LastTie(loc, move, depth, lossPlies) ==
  LET bestLossPliesForThis == IF lossPlies = INF_PLIES THEN 2 ELSE lossPlies
      better == bestLossPliesForThis >= loc.bestLossPlies
  IN  [bestLossPlies |-> IF better THEN bestLossPliesForThis
                         ELSE loc.bestLossPlies,
       bestLossMove |-> IF better THEN move ELSE loc.bestLossMove,
       ui_moves |-> IF depth = 0 THEN Append(loc.ui_moves, move)
                    ELSE loc.ui_moves,
       ui_plies |-> IF depth = 0 THEN Append(loc.ui_plies, bestLossPliesForThis)
                    ELSE loc.ui_plies,
       ui_wins |-> IF depth = 0 THEN Append(loc.ui_wins, 0)
                   ELSE loc.ui_wins]

\* The locals after a move that does not win: bestLossPlies, bestLossMove
\* and, at the root, the ui lists.
note_loss(loc, move, depth, lossPlies) ==
  LET bestLossPliesForThis == IF lossPlies = INF_PLIES THEN 2 ELSE lossPlies
      better == bestLossPliesForThis > loc.bestLossPlies
  IN  [bestLossPlies |-> IF better THEN bestLossPliesForThis
                         ELSE loc.bestLossPlies,
       bestLossMove |-> IF better THEN move ELSE loc.bestLossMove,
       ui_moves |-> IF depth = 0 THEN Append(loc.ui_moves, move)
                    ELSE loc.ui_moves,
       ui_plies |-> IF depth = 0 THEN Append(loc.ui_plies, bestLossPliesForThis)
                    ELSE loc.ui_plies,
       ui_wins |-> IF depth = 0 THEN Append(loc.ui_wins, 0)
                   ELSE loc.ui_wins]

RECURSIVE solve_rec(_, _, _)
RECURSIVE reply_loop(_, _, _, _, _, _)
RECURSIVE reply_step(_, _, _, _, _, _)
RECURSIVE move_loop(_, _, _, _, _, _)
RECURSIVE move_step(_, _, _, _, _, _)

\* The loop over the opponent's replies to one move, from the i-th on:
\* the solver object and the accumulators after it.
reply_loop(sv, nextState, replies, i, depth, acc) ==
  IF i > Len(replies) THEN [sv |-> sv, acc |-> acc]
  ELSE reply_step(solve_rec(sv, apply_move(nextState,
                                           currentPlayerIndex(nextState),
                                           replies[i]),
                            depth + 2),
                  nextState, replies, i, depth, acc)

\* The rest of the replies' loop once the i-th reply is answered by r.
reply_step(r, nextState, replies, i, depth, acc) ==
  reply_loop(r.sv, nextState, replies, i + 1, depth, note_reply(acc, r.ans))

\* One move's evaluation: the replies' loop, when the opponent has a reply.
evaluate_move(sv, nextState, depth) ==
  IF destinationsMask(nextState) # {}
  THEN reply_loop(sv, nextState, MaskOrder(destinationsMask(nextState)),
                  1, depth, move_acc0)
  ELSE [sv |-> sv, acc |-> move_acc0]

\* The loop over the ordered moves, from the i-th on, and the return.
\* loc carries bestLossPlies, bestLossMove, ui_moves, ui_plies, ui_wins.
move_loop(sv, s, moves, i, depth, loc) ==
  IF i > Len(moves) THEN finish_loop(sv, s, depth, loc)
  ELSE move_step(evaluate_move(sv, after_move(s, moves[i].move), depth),
                 s, moves, i, depth, loc)

\* The rest of the moves' loop once the i-th move is evaluated as e.
move_step(e, s, moves, i, depth, loc) ==
  IF e.acc.allOpponentRepliesLeadToOurWin
  THEN finish_win(record_edge(e.sv, s, after_move(s, moves[i].move)),
                  s, moves[i].move, depth, loc, e.acc.worstWinPlies)
  ELSE move_loop(record_edge(e.sv, s, after_move(s, moves[i].move)),
                 s, moves, i + 1, depth,
                 note_loss(loc, moves[i].move, depth,
                           e.acc.bestLossPliesForThis))

\* Solver::solve_rec: the Answer and the solver object after the call.
solve_rec(sv, s, depth) ==
  IF StateKey(s) \in DOMAIN sv.cache_
  THEN [ans |-> sv.cache_[StateKey(s)], sv |-> sv]
  ELSE IF destinationsMask(s) = {}
  THEN [ans |-> [win |-> FALSE, best_move |-> NO_MOVE, plies |-> 0],
        sv |-> [sv EXCEPT !.cache_ =
                  emplace(@, StateKey(s),
                          [win |-> FALSE, best_move |-> NO_MOVE,
                           plies |-> 0])]]
  ELSE move_loop(sv, s, MoveOrder(sv, s), 1, depth,
                 [bestLossPlies |-> -1, bestLossMove |-> NO_MOVE,
                  ui_moves |-> <<>>, ui_plies |-> <<>>, ui_wins |-> <<>>])

\* push_metrics that pushes the plies without the floors of 1 and 2.
push_metrics_RawPlies(sv, move, acc) ==
  [sv EXCEPT
     !.top_moves_ = Append(@, move),
     !.top_move_plies_ =
        Append(@, IF acc.allOpponentRepliesLeadToOurWin
                  THEN acc.worstWinPlies
                  ELSE acc.bestLossPliesForThis),
     !.top_move_wins_ =
        Append(@, IF acc.allOpponentRepliesLeadToOurWin THEN 1 ELSE 0)]

\* One entry pushed on the three root lists by compute_root_move_metrics.
push_metrics(sv, move, acc) ==
  [sv EXCEPT
     !.top_moves_ = Append(@, move),
     !.top_move_plies_ =
        Append(@, IF acc.allOpponentRepliesLeadToOurWin
                  THEN (IF acc.worstWinPlies = 0 THEN 1
                        ELSE acc.worstWinPlies)
                  ELSE (IF acc.bestLossPliesForThis = INF_PLIES THEN 2
                        ELSE acc.bestLossPliesForThis)),
     !.top_move_wins_ =
        Append(@, IF acc.allOpponentRepliesLeadToOurWin THEN 1 ELSE 0)]

RECURSIVE metrics_loop(_, _, _, _)
RECURSIVE metrics_step(_, _, _, _)
\* The second loop of compute_root_move_metrics, from the i-th move on.
metrics_loop(sv, s, moves, i) ==
  IF i > Len(moves) THEN sv
  ELSE metrics_step(evaluate_move(sv, after_move(s, moves[i].move), 0),
                    s, moves, i)

metrics_step(e, s, moves, i) ==
  metrics_loop(push_metrics(e.sv, moves[i].move, e.acc), s, moves, i + 1)

\* Solver::compute_root_move_metrics: the solver object after the call.
compute_root_move_metrics(sv, s) ==
  IF destinationsMask(s) = {} THEN swap_top(sv, <<>>, <<>>, <<>>)
  ELSE metrics_loop(swap_top(sv, <<>>, <<>>, <<>>), s, orderedMoves(s), 1)

\* The rest of Solver::solve once solve_rec has returned r.
solve_tail(r, s) ==
  IF r.sv.collect_root_metrics_ /\ r.sv.top_moves_ = <<>>
  THEN [ans |-> r.ans, sv |-> compute_root_move_metrics(r.sv, s)]
  ELSE r

\* Solver::solve: the Answer and the solver object after the call.
solve(sv, s) ==
  solve_tail(solve_rec(swap_top(sv, <<>>, <<>>, <<>>), s, 0), s)

\* The largest cache the dump is enumerated for.
MaxNodes == 4

\* The orders in which `for (const auto& [k, _] : cache_)` can visit the
\* keys of the std::unordered_map: the standard fixes no order, the
\* buckets of the build decide, so every permutation is an outcome.
iteration_orders(cache) ==
  {keys \in [1 .. Cardinality(DOMAIN cache) -> DOMAIN cache] :
     \A i, j \in 1 .. Cardinality(DOMAIN cache) :
       i # j => keys[i] # keys[j]}

\* The fields written for the node of the key k.
dump_node(sv, k) ==
  [key |-> k,
   win |-> IF sv.cache_[k].win THEN 1 ELSE 0,
   best |-> sv.cache_[k].best_move,
   plies |-> sv.cache_[k].plies,
   edge_count |-> IF k \in DOMAIN sv.edges_ THEN Len(sv.edges_[k]) ELSE 0,
   edges |-> IF k \in DOMAIN sv.edges_ THEN sv.edges_[k] ELSE <<>>]

\* Solver::dump_tree_binary_to_vector: what is appended to out when the
\* cache is visited in the order keys.
dump_tree_binary_to_vector(sv, keys) ==
  [node_count |-> Len(keys),
   nodes |-> [i \in 1 .. Len(keys) |-> dump_node(sv, keys[i])]]

\* No dump is written.
NoDump == [exists |-> FALSE]

\* Solver::dump_tree_binary: the file written, none when fopen fails.
dump_tree_binary(sv, keys, opened) ==
  IF ~opened THEN NoDump ELSE dump_tree_binary_to_vector(sv, keys)

\* clear_cache that leaves the edge map as it is.
clear_cache_KeepsEdges(sv) ==
  [sv EXCEPT !.cache_ = <<>>, !.top_moves_ = <<>>,
             !.top_move_plies_ = <<>>, !.top_move_wins_ = <<>>]

\* clear_cache that leaves the cache as it is.
clear_cache_KeepsCache(sv) ==
  [sv EXCEPT !.edges_ = <<>>, !.top_moves_ = <<>>,
             !.top_move_plies_ = <<>>, !.top_move_wins_ = <<>>]

\* Solver::clear_cache
clear_cache(sv) ==
  [sv EXCEPT !.cache_ = <<>>, !.edges_ = <<>>, !.top_moves_ = <<>>,
             !.top_move_plies_ = <<>>, !.top_move_wins_ = <<>>]


-----------------------------------------------------------------------------
(* States the program is given                                             *)

MaxFree == 7      \* cells not collapsed in a root position
MaxPlays == 1     \* moves played from a root position
MaxSteps == 4     \* largest step count asked of enumerate_destinations

\* Card layouts, one value per cell in row-major order; 0 is a cell that is
\* in no card mask (a state given with --state can have such cells).
Deals ==
  << << 1, 2, 3, 4,   2, 3, 4, 1,   3, 4, 1, 2,   4, 1, 2, 3 >>,
     << 1, 1, 2, 1,   2, 1, 3, 2,   3, 4, 4, 2,   3, 3, 4, 4 >>,
     << 1, 2, 1, 0,   1, 3, 2, 2,   4, 1, 3, 0,   2, 3, 3, 4 >> >>

CardMask(deal, value) == {c \in Cells : deal[c + 1] = value}

\* The cells left after a number of collapses: the first MaxFree cells of
\* the walk c -> (stride * c + offset) mod 16.
FreeCells(stride, offset) ==
  {c \in Cells : ((stride * c) + offset) % BOARD_N < MaxFree}

Strides == {1, 5}
Offsets == {0, 6}

RootStates ==
  {[bbA |-> CardMask(Deals[d], 1), bb2 |-> CardMask(Deals[d], 2),
    bb3 |-> CardMask(Deals[d], 3), bb4 |-> CardMask(Deals[d], 4),
    bbX |-> bit(x), bbO |-> bit(o),
    bbCollapsed |-> Cells \ FreeCells(st, off), turn |-> t] :
     d \in 1 .. Len(Deals), st \in Strides, off \in Offsets,
     x \in Cells, o \in Cells, t \in {0, 1}}

\* A Solver as constructed, and the comparison solver that examines the
\* moves in destination-index order.
NewSolver ==
  [cache_ |-> <<>>, edges_ |-> <<>>, top_moves_ |-> <<>>,
   top_move_plies_ |-> <<>>, top_move_wins_ |-> <<>>,
   capture_edges_ |-> TRUE, collect_root_metrics_ |-> TRUE]
PlainSolver ==
  [cache_ |-> <<>>, edges_ |-> <<>>, top_moves_ |-> <<>>,
   top_move_plies_ |-> <<>>, top_move_wins_ |-> <<>>,
   capture_edges_ |-> TRUE, collect_root_metrics_ |-> TRUE,
   plain_order |-> TRUE]

NoCall == [op |-> "none", in |-> <<>>, arg |-> <<>>, out |-> <<>>]

SolverObject ==
  [cache_ |-> cache_, edges_ |-> edges_, top_moves_ |-> top_moves_,
   top_move_plies_ |-> top_move_plies_, top_move_wins_ |-> top_move_wins_,
   capture_edges_ |-> capture_edges_,
   collect_root_metrics_ |-> collect_root_metrics_]

SetSolver(sv) ==
  /\ cache_' = sv.cache_
  /\ edges_' = sv.edges_
  /\ top_moves_' = sv.top_moves_
  /\ top_move_plies_' = sv.top_move_plies_
  /\ top_move_wins_' = sv.top_move_wins_
  /\ capture_edges_' = sv.capture_edges_
  /\ collect_root_metrics_' = sv.collect_root_metrics_

\* A freshly constructed Solver.
SolverInit ==
  /\ cache_ = <<>>
  /\ edges_ = <<>>
  /\ top_moves_ = <<>>
  /\ top_move_plies_ = <<>>
  /\ top_move_wins_ = <<>>
  /\ capture_edges_ = TRUE
  /\ collect_root_metrics_ = TRUE

Init ==
  /\ state \in {s \in RootStates :
                  /\ s.bbX # s.bbO
                  /\ (s.bbX \cup s.bbO) \cap s.bbCollapsed = {}}
  /\ call = NoCall
  /\ SolverInit
  /\ EnumIdle

\* answer = solver.solve(state)
Solve ==
  LET r == solve(SolverObject, state)
  IN  /\ SetSolver(r.sv)
      /\ call' = [op |-> "solve", in |-> state, arg |-> <<>>, out |-> r.ans]
      /\ UNCHANGED state
      /\ UNCHANGED enumVars

\* state = apply_move(state, from, to) for a legal move of the side to move
Play ==
  /\ Cardinality(Cells \ state.bbCollapsed) > MaxFree - MaxPlays
  /\ \E to \in destinationsMask(state) :
       LET from == currentPlayerIndex(state)
           next == apply_move(state, from, to)
       IN  /\ state' = next
           /\ call' = [op |-> "apply_move", in |-> state,
                       arg |-> <<from, to>>, out |-> next]
  /\ UNCHANGED solverVars
  /\ UNCHANGED enumVars

ClearCache ==
  /\ SetSolver(clear_cache(SolverObject))
  /\ call' = [op |-> "clear_cache", in |-> state, arg |-> <<>>, out |-> <<>>]
  /\ UNCHANGED state
  /\ UNCHANGED enumVars

\* solver.compute_root_move_metrics(state), the second pass a caller asks
\* for after solve(state).
ComputeRootMoveMetrics ==
  /\ call.op = "solve"
  /\ SetSolver(compute_root_move_metrics(SolverObject, state))
  /\ call' = [op |-> "compute_root_move_metrics", in |-> state,
              arg |-> <<>>, out |-> <<>>]
  /\ UNCHANGED state
  /\ UNCHANGED enumVars

\* solver.set_capture_edges(enabled), called as the enumerator calls it:
\* on the solver just constructed.
SetCaptureEdges ==
  /\ cache_ = <<>> /\ call.op \in {"none", "set_collect_root_metrics"}
  /\ \E enabled \in BOOLEAN :
       /\ capture_edges_' = enabled
       /\ call' = [op |-> "set_capture_edges", in |-> state,
                   arg |-> <<enabled>>, out |-> <<>>]
  /\ UNCHANGED <<state, cache_, edges_, top_moves_, top_move_plies_,
                 top_move_wins_, collect_root_metrics_>>
  /\ UNCHANGED enumVars

\* solver.set_collect_root_metrics(enabled), called as the enumerator
\* calls it: on the solver just constructed.
SetCollectRootMetrics ==
  /\ cache_ = <<>> /\ call.op \in {"none", "set_capture_edges"}
  /\ \E enabled \in BOOLEAN :
       /\ collect_root_metrics_' = enabled
       /\ call' = [op |-> "set_collect_root_metrics", in |-> state,
                   arg |-> <<enabled>>, out |-> <<>>]
  /\ UNCHANGED <<state, cache_, edges_, top_moves_, top_move_plies_,
                 top_move_wins_, capture_edges_>>
  /\ UNCHANGED enumVars

Next ==
  \/ Solve
  \/ Play
  \/ ClearCache
  \/ ComputeRootMoveMetrics
  \/ SetCaptureEdges
  \/ SetCollectRootMetrics

Spec == Init /\ [][Next]_vars

-----------------------------------------------------------------------------
(* The move generator asked on its own                                     *)

MaxCollapsed == 1   \* collapsed cells of a sparse board

\* Boards with few collapsed cells, and boards with MaxFree cells left.
MoveBoards ==
  {m \in SUBSET Cells : Cardinality(m) <= MaxCollapsed}
  \cup {Cells \ FreeCells(st, off) : st \in {1, 3, 5, 7}, off \in Cells}

InitMoves ==
  /\ state \in {[bbA |-> CardMask(Deals[d], 1), bb2 |-> CardMask(Deals[d], 2),
                 bb3 |-> CardMask(Deals[d], 3), bb4 |-> CardMask(Deals[d], 4),
                 bbX |-> bit(0), bbO |-> bit(1),
                 bbCollapsed |-> m, turn |-> 0] :
                  d \in {1}, m \in MoveBoards}
  /\ call = NoCall
  /\ SolverInit
  /\ EnumIdle

\* mask = enumerate_destinations(state, start, steps, opp)
EnumerateDestinations ==
  /\ call.op = "none"
  /\ \E start \in Cells, steps \in 0 .. MaxSteps, opp \in Cells :
       call' = [op |-> "enumerate_destinations", in |-> state,
                arg |-> <<start, steps, opp>>,
                out |-> enumerate_destinations(state, start, steps, opp)]
  /\ UNCHANGED state
  /\ UNCHANGED solverVars
  /\ UNCHANGED enumVars

NextMoves == EnumerateDestinations

SpecMoves == InitMoves /\ [][NextMoves]_vars

-----------------------------------------------------------------------------
(* One Solver kept, without clear_cache, along the positions of a game     *)

MaxDescent == 2   \* moves played between two calls of solve

InitCache ==
  /\ state \in {s \in RootStates :
                  /\ s.bbCollapsed = Cells \ FreeCells(1, 0)
                  /\ s.bbX # s.bbO
                  /\ (s.bbX \cup s.bbO) \cap s.bbCollapsed = {}}
  /\ call = NoCall
  /\ SolverInit
  /\ EnumIdle

\* state = apply_move(state, from, to), up to MaxDescent moves deep.
PlayOn ==
  /\ Cardinality(Cells \ state.bbCollapsed) > MaxFree - MaxDescent
  /\ \E to \in destinationsMask(state) :
       LET from == currentPlayerIndex(state)
           next == apply_move(state, from, to)
       IN  /\ state' = next
           /\ call' = [op |-> "apply_move", in |-> state,
                       arg |-> <<from, to>>, out |-> next]
  /\ UNCHANGED solverVars
  /\ UNCHANGED enumVars

NextCache ==
  \/ Solve
  \/ PlayOn
  \/ ClearCache

SpecCache == InitCache /\ [][NextCache]_vars

-----------------------------------------------------------------------------
(* The hasher.  A uint64_t is its eight bytes, least significant first;    *)
(* every operation wraps modulo 2^64 as the unsigned C++ arithmetic does.  *)

WORD_BYTES == 8
BYTE == 256

\* The uint64_t holding a value below 2^31.
word(n) ==
  << n % BYTE, (n \div BYTE) % BYTE, (n \div (BYTE ^ 2)) % BYTE,
     (n \div (BYTE ^ 3)) % BYTE, 0, 0, 0, 0 >>

RECURSIVE MaskValue(_)
\* The uint16_t a bitboard is: bit c set for every cell c of the mask.
MaskValue(mask) ==
  IF mask = {} THEN 0
  ELSE LET c == CHOOSE x \in mask : TRUE
       IN  (2 ^ c) + MaskValue(mask \ {c})

RECURSIVE add_from(_, _, _, _)
\* The bytes of left + right from byte i on, given the carry into byte i.
add_from(left, right, i, carry) ==
  IF i > WORD_BYTES THEN <<>>
  ELSE <<(left[i] + right[i] + carry) % BYTE>>
       \o add_from(left, right, i + 1, (left[i] + right[i] + carry) \div BYTE)

\* left + right on uint64_t
add64(left, right) == add_from(left, right, 1, 0)

RECURSIVE mul_column(_, _, _, _)
\* The sum of the byte products left[j] * right[k + 1 - j] for j = 1 .. i.
mul_column(left, right, k, i) ==
  IF i = 0 THEN 0
  ELSE (left[i] * right[k + 1 - i]) + mul_column(left, right, k, i - 1)

RECURSIVE mul_from(_, _, _, _)
\* The bytes of left * right from byte k on, given the carry into byte k.
mul_from(left, right, k, carry) ==
  IF k > WORD_BYTES THEN <<>>
  ELSE <<(mul_column(left, right, k, k) + carry) % BYTE>>
       \o mul_from(left, right, k + 1,
                   (mul_column(left, right, k, k) + carry) \div BYTE)

\* left * right on uint64_t
mul64(left, right) == mul_from(left, right, 1, 0)

\* left >= right on uint64_t
geq64(left, right) ==
  LET differ == {i \in 1 .. WORD_BYTES : left[i] # right[i]}
  IN  \/ differ = {}
      \/ \E i \in differ : /\ left[i] > right[i]
                           /\ \A j \in differ : j <= i

\* Bit n of value; 0 from bit 64 on.
bit_of(value, n) ==
  IF n >= 8 * WORD_BYTES THEN 0
  ELSE (value[(n \div 8) + 1] \div (2 ^ (n % 8))) % 2

\* Bit n of value ^ (value >> shift)
xor_bit(value, shift, n) ==
  (bit_of(value, n) + bit_of(value, n + shift)) % 2

\* Byte i of value ^ (value >> shift)
xor_byte(value, shift, i) ==
  xor_bit(value, shift, 8 * (i - 1))
  + 2 * xor_bit(value, shift, 8 * (i - 1) + 1)
  + 4 * xor_bit(value, shift, 8 * (i - 1) + 2)
  + 8 * xor_bit(value, shift, 8 * (i - 1) + 3)
  + 16 * xor_bit(value, shift, 8 * (i - 1) + 4)
  + 32 * xor_bit(value, shift, 8 * (i - 1) + 5)
  + 64 * xor_bit(value, shift, 8 * (i - 1) + 6)
  + 128 * xor_bit(value, shift, 8 * (i - 1) + 7)

\* value ^ (value >> shift) on uint64_t
xor_shift(value, shift) ==
  << xor_byte(value, shift, 1), xor_byte(value, shift, 2),
     xor_byte(value, shift, 3), xor_byte(value, shift, 4),
     xor_byte(value, shift, 5), xor_byte(value, shift, 6),
     xor_byte(value, shift, 7), xor_byte(value, shift, 8) >>

\* pair64 that forgets the right operand when left >= right.
pair64_DropsRight(left, right) ==
  IF geq64(left, right)
  THEN add64(mul64(left, left), left)
  ELSE add64(left, mul64(right, right))

\* Szudzik pairing modulo 2^64
pair64(left, right) ==
  IF geq64(left, right)
  THEN add64(add64(mul64(left, left), left), right)
  ELSE add64(left, mul64(right, right))

\* 0x9e3779b97f4a7c15, 0xbf58476d1ce4e5b9, 0x94d049bb133111eb
GOLDEN_GAMMA == << 21, 124, 74, 127, 185, 121, 55, 158 >>
MIX_MUL_1 == << 185, 229, 228, 28, 109, 71, 88, 191 >>
MIX_MUL_2 == << 235, 17, 49, 19, 187, 73, 208, 148 >>

\* SplitMix64 finaliser
mix64(value) ==
  xor_shift(mul64(xor_shift(mul64(xor_shift(add64(value, GOLDEN_GAMMA), 30),
                                  MIX_MUL_1), 27),
                  MIX_MUL_2), 31)

RECURSIVE fold_pair64(_, _, _)
\* hashValue after the first i passes of hash_state's loop.
fold_pair64(values, i, hashValue) ==
  IF i = 0 THEN hashValue
  ELSE pair64(fold_pair64(values, i - 1, hashValue), values[i])

\* hashValue before mix64.
hash_fold(aMask, twoMask, threeMask, fourMask, xMask, oMask, collapsedMask, turnValue) ==
  fold_pair64(<< word(MaskValue(aMask)), word(MaskValue(twoMask)),
                 word(MaskValue(threeMask)), word(MaskValue(fourMask)),
                 word(MaskValue(xMask)), word(MaskValue(oMask)),
                 word(MaskValue(collapsedMask)), word(turnValue) >>,
              8, word(0))

hash_state(aMask, twoMask, threeMask, fourMask, xMask, oMask, collapsedMask, turnValue) ==
  mix64(hash_fold(aMask, twoMask, threeMask, fourMask, xMask, oMask,
                  collapsedMask, turnValue))

\* hash_state of a BitState with the given turn.
hash_of(s, turnValue) ==
  hash_state(s.bbA, s.bb2, s.bb3, s.bb4, s.bbX, s.bbO, s.bbCollapsed,
             turnValue)

MaxHashCell == 3   \* largest cell a piece or a collapse is put on

\* Values of the four card masks: a deal, all four empty, all four full.
HashCards ==
  {<<CardMask(Deals[d], 1), CardMask(Deals[d], 2), CardMask(Deals[d], 3),
     CardMask(Deals[d], 4)>> : d \in 1 .. Len(Deals)}
  \cup {<<{}, {}, {}, {}>>, <<Cells, Cells, Cells, Cells>>}

\* Values of a piece or collapsed mask, not only those of a game.
HashMasks == {{}, Cells} \cup {bit(c) : c \in 0 .. MaxHashCell}

InitHash ==
  /\ state \in {[bbA |-> k[1], bb2 |-> k[2], bb3 |-> k[3], bb4 |-> k[4],
                 bbX |-> x, bbO |-> o, bbCollapsed |-> c, turn |-> 0] :
                  k \in HashCards, x \in HashMasks, o \in HashMasks,
                  c \in {{}, Cells, bit(MaxHashCell)}}
  /\ call = NoCall
  /\ SolverInit
  /\ EnumIdle

\* key = hash_state(masks of state, turn)
HashState ==
  /\ call.op = "none"
  /\ \E turnValue \in {0, 1} :
       call' = [op |-> "hash_state", in |-> state, arg |-> <<turnValue>>,
                out |-> hash_of(state, turnValue)]
  /\ UNCHANGED state
  /\ UNCHANGED solverVars
  /\ UNCHANGED enumVars

NextHash == HashState

SpecHash == InitHash /\ [][NextHash]_vars

-----------------------------------------------------------------------------
(* The solved database: records and files.  A file is a record with the    *)
(* flag exists and the sequence of its bytes.                               *)

\* A byte the program never sets: padding the compiler inserts.
PADDING == -1

\* The members of struct Record in declaration order, with the size and
\* the alignment of their types.
RecordFields ==
  << [name |-> "key", size |-> 8, align |-> 8],
     [name |-> "turn", size |-> 1, align |-> 1],
     [name |-> "win", size |-> 1, align |-> 1],
     [name |-> "best", size |-> 1, align |-> 1],
     [name |-> "plies", size |-> 2, align |-> 2],
     [name |-> "pad", size |-> 4, align |-> 1] >>

round_up(n, align) == ((n + align - 1) \div align) * align

RECURSIVE field_end(_)
\* The offset just past member i of struct Record.
field_end(i) ==
  IF i = 0 THEN 0
  ELSE round_up(field_end(i - 1), RecordFields[i].align) + RecordFields[i].size

\* offsetof(Record, member i)
field_offset(i) == round_up(field_end(i - 1), RecordFields[i].align)

\* alignof(Record): the largest alignment of a member.
alignof_Record ==
  CHOOSE a \in {RecordFields[i].align : i \in DOMAIN RecordFields} :
    \A i \in DOMAIN RecordFields : RecordFields[i].align <= a

\* sizeof(Record)
sizeof_Record == round_up(field_end(Len(RecordFields)), alignof_Record)

\* n padding bytes
padding(n) == [i \in 1 .. n |-> PADDING]

\* The bytes of member i of the Record r, least significant byte first.
field_bytes(r, i) ==
  IF i = 1 THEN r.key
  ELSE IF i = 2 THEN <<r.turn>>
  ELSE IF i = 3 THEN <<r.win>>
  ELSE IF i = 4 THEN <<r.best>>
  ELSE IF i = 5 THEN <<r.plies % BYTE, r.plies \div BYTE>>
  ELSE <<0, 0, 0, 0>>

RECURSIVE record_prefix(_, _)
\* The bytes of the Record r up to the end of member i.
record_prefix(r, i) ==
  IF i = 0 THEN <<>>
  ELSE record_prefix(r, i - 1)
       \o padding(field_offset(i) - field_end(i - 1))
       \o field_bytes(r, i)

\* The object representation of the Record r: what f.write puts in the file.
record_bytes(r) ==
  record_prefix(r, Len(RecordFields))
  \o padding(sizeof_Record - field_end(Len(RecordFields)))

RECURSIVE buffer_bytes(_, _)
\* The bytes of the first n Records of buf: buf.data(), n * sizeof(Record).
buffer_bytes(buf, n) ==
  IF n = 0 THEN <<>>
  ELSE buffer_bytes(buf, n - 1) \o record_bytes(buf[n])

\* The Record held by recSize bytes read from a file.
record_of(chunk) ==
  [key |-> SubSeq(chunk, field_offset(1) + 1, field_offset(1) + 8),
   turn |-> chunk[field_offset(2) + 1],
   win |-> chunk[field_offset(3) + 1],
   best |-> chunk[field_offset(4) + 1],
   plies |-> chunk[field_offset(5) + 1] + BYTE * chunk[field_offset(5) + 2]]

RECURSIVE read_records(_, _)
\* The Records the loop "while (f.read(&r, sizeof(r)))" reads from the
\* first n whole records of bytes.
read_records(bytes, n) ==
  IF n = 0 THEN <<>>
  ELSE Append(read_records(bytes, n - 1),
              record_of(SubSeq(bytes, (n - 1) * sizeof_Record + 1,
                               n * sizeof_Record)))

\* Every Record a reader gets from a file: the short read at a torn tail
\* ends the loop; a file that cannot be opened gives none.
file_records(file) ==
  IF file.exists
  THEN read_records(file.bytes, Len(file.bytes) \div sizeof_Record)
  ELSE <<>>

KeyTurn(r) == <<r.key, r.turn>>

\* The (key, turn) of every record of a sequence.
KeyTurns(records) == {KeyTurn(records[i]) : i \in DOMAIN records}

NoFile == [exists |-> FALSE, bytes |-> <<>>]

\* The file opened without app: the write replaces its content.
append_file_Replaces(file, bytes) == [exists |-> TRUE, bytes |-> bytes]

\* std::ofstream(path, binary | app) followed by write(bytes): the file is
\* created when missing and the bytes go to its end.
append_file(file, bytes) == [exists |-> TRUE, bytes |-> file.bytes \o bytes]

\* load_seen_from_db that misses the last record of the file.
load_seen_DropsLast(file, seen) ==
  IF Len(file.bytes) < sizeof_Record THEN seen
  ELSE seen \cup KeyTurns(read_records(file.bytes,
                            (Len(file.bytes) \div sizeof_Record) - 1))

\* load_seen_from_db: the seen set after the records of the file are added.
load_seen_from_db(file, seen) == seen \cup KeyTurns(file_records(file))

\* truncate_to_multiple_and_count without the resize of a torn file.
truncate_Keeps(file, recordSize) ==
  IF ~file.exists \/ recordSize = 0 THEN [file |-> file, count |-> 0]
  ELSE [file |-> file, count |-> Len(file.bytes) \div recordSize]

\* truncate_to_multiple_and_count: the file afterwards and the count returned.
truncate_to_multiple_and_count(file, recordSize) ==
  IF ~file.exists \/ recordSize = 0 THEN [file |-> file, count |-> 0]
  ELSE LET size == Len(file.bytes)
           remainder == size % recordSize
           newSize == size - remainder
           resized == IF remainder # 0
                      THEN [file EXCEPT !.bytes = SubSeq(@, 1, newSize)]
                      ELSE file
       IN  [file |-> resized, count |-> Len(resized.bytes) \div recordSize]

\* Record n of a file's bytes, as read into a Record and written back.
chunk(bytes, n) ==
  SubSeq(bytes, (n - 1) * sizeof_Record + 1, n * sizeof_Record)

RECURSIVE first_occurrences_Adjacent(_, _)
\* first_occurrences that compares a record with the one before it only.
first_occurrences_Adjacent(bytes, n) ==
  IF n = 0 THEN <<>>
  ELSE IF n > 1 /\ KeyTurn(record_of(chunk(bytes, n)))
                     = KeyTurn(record_of(chunk(bytes, n - 1)))
  THEN first_occurrences_Adjacent(bytes, n - 1)
  ELSE first_occurrences_Adjacent(bytes, n - 1) \o chunk(bytes, n)

RECURSIVE first_occurrences(_, _)
\* The bytes dedup_database writes for the first n records read: every
\* record whose (key, turn) seen.insert had not met before.
first_occurrences(bytes, n) ==
  IF n = 0 THEN <<>>
  ELSE IF KeyTurn(record_of(chunk(bytes, n)))
            \in KeyTurns(read_records(bytes, n - 1))
  THEN first_occurrences(bytes, n - 1)
  ELSE first_occurrences(bytes, n - 1) \o chunk(bytes, n)

\* dedup_database: the return code and the files <db> and <db>.bak
\* afterwards (the renames succeed; <db>.dedup is gone after the second).
dedup_database(db, bak) ==
  IF ~db.exists THEN [code |-> 1, db |-> db, bak |-> bak]
  ELSE [code |-> 0,
        db |-> [exists |-> TRUE,
                bytes |-> first_occurrences(
                            db.bytes, Len(db.bytes) \div sizeof_Record)],
        bak |-> db]

RECURSIVE mod_from(_, _, _)
\* The bytes of key from byte i on, taken modulo stride.
mod_from(key, stride, i) ==
  IF i > WORD_BYTES THEN 0
  ELSE (mod_from(key, stride, i + 1) * BYTE + key[i]) % stride

\* key % stride on uint64_t
mod64(key, stride) == mod_from(key, stride, 1)

-----------------------------------------------------------------------------
(* The enumerator of canonical positions (solve_norm_db)                   *)

EnumCells == 3    \* cells of the enumerator's board (BOARD_N in the program)
MaxBatch == 2     \* --batch
MaxLimit == 3     \* --limit, when one is given
MaxKills == 1     \* times the process is killed

\* Cells per card value: 4 of 16 in the program.
PerCard == IF EnumCells >= 8 THEN EnumCells \div 4 ELSE 1

EnumSet == 0 .. (EnumCells - 1)

\* {x} joined to every set of a sequence of sets.
with_cell(x, sets) == [k \in 1 .. Len(sets) |-> {x} \cup sets[k]]

RECURSIVE combos(_, _, _)
\* The sets the nested loops "for (i0 ..) for (i1 = i0 + 1 ..) .." choose
\* from pool, count cells at indices from i on, in the loops' order.
combos(pool, count, i) ==
  IF count = 0 THEN << {} >>
  ELSE IF i > Len(pool) THEN <<>>
  ELSE with_cell(pool[i], combos(pool, count - 1, i + 1))
       \o combos(pool, count, i + 1)

\* choices that offers the cells already used again.
choices_IgnoreUsed(used) == combos(MaskOrder(EnumSet), PerCard, 1)

\* The sets of PerCard cells chosen among the cells of EnumSet not in used.
choices(used) == combos(MaskOrder(EnumSet \ used), PerCard, 1)

\* collMask: nothing is collapsed on the board of the enumerator.  The
\* board of the model has the cells of EnumSet only; the cells of the 4x4
\* torus beyond them are out of play, which a BitState says by having them
\* collapsed.
collMask == Cells \ EnumSet

\* BitState{aMask, twoMask, threeMask, fourMask, xMask, oMask, collMask, turn}
canon_state(A, B2, B3, oIdx, turn) ==
  [bbA |-> A, bb2 |-> B2, bb3 |-> B3, bb4 |-> EnumSet \ (A \cup B2 \cup B3),
   bbX |-> bit(0), bbO |-> bit(oIdx), bbCollapsed |-> collMask, turn |-> turn]

RECURSIVE loop_threes(_, _, _, _)
RECURSIVE loop_twos(_, _, _)
RECURSIVE loop_aces(_, _)
RECURSIVE loop_o(_)

\* The states of the innermost loops from the j-th choice of 3s on.
loop_threes(oIdx, A, B2, j) ==
  IF j > Len(choices(A \cup B2)) THEN <<>>
  ELSE << canon_state(A, B2, choices(A \cup B2)[j], oIdx, 0),
          canon_state(A, B2, choices(A \cup B2)[j], oIdx, 1) >>
       \o loop_threes(oIdx, A, B2, j + 1)

loop_twos(oIdx, A, i) ==
  IF i > Len(choices(A)) THEN <<>>
  ELSE loop_threes(oIdx, A, choices(A)[i], 1) \o loop_twos(oIdx, A, i + 1)

loop_aces(oIdx, a) ==
  IF a > Len(choices({})) THEN <<>>
  ELSE loop_twos(oIdx, choices({})[a], 1) \o loop_aces(oIdx, a + 1)

loop_o(oIdx) ==
  IF oIdx >= EnumCells THEN <<>>
  ELSE loop_aces(oIdx, 1) \o loop_o(oIdx + 1)

\* The states the loop nest reaches, in its order.
CanonRoots == loop_o(1)

RECURSIVE keys_between(_, _)
\* The keys of the states first .. last of the loop nest, in order (computed
\* by halves, which keeps the evaluation shallow).
keys_between(first, last) ==
  IF first > last THEN <<>>
  ELSE IF first = last
    THEN << hash_of(CanonRoots[first], CanonRoots[first].turn) >>
  ELSE keys_between(first, (first + last) \div 2)
       \o keys_between((first + last) \div 2 + 1, last)

\* key = hash_state(aMask, ..., collMask, turn) of every state in turn.
CanonKeys == keys_between(1, Len(CanonRoots))

\* A database of another run given with --seen: two records and a torn tail.
OtherDb ==
  [exists |-> TRUE,
   bytes |-> record_bytes([key |-> CanonKeys[2], turn |-> CanonRoots[2].turn,
                           win |-> 0, best |-> NO_MOVE, plies |-> 0])
             \o record_bytes([key |-> CanonKeys[5],
                              turn |-> CanonRoots[5].turn,
                              win |-> 1, best |-> 1, plies |-> 1])
             \o <<7, 7, 7>>]

\* The command lines: sharding, limit (0: none), batch, --seen files.
EnumParams ==
  {[stride |-> sh[1], offset |-> sh[2], limit |-> limit, batch |-> MaxBatch,
    seenPaths |-> sp, dumpdir |-> FALSE] :
     sh \in {<<1, 0>>, <<2, 0>>, <<2, 1>>}, limit \in {0, MaxLimit},
     sp \in {<<>>, <<"other">>}}

\* The command lines with --dumpdir.
EnumDumpParams ==
  {[stride |-> sh[1], offset |-> sh[2], limit |-> limit, batch |-> MaxBatch,
    seenPaths |-> <<>>, dumpdir |-> TRUE] :
     sh \in {<<1, 0>>, <<2, 1>>}, limit \in {0, MaxLimit}}

\* BitState{}
ZeroState ==
  [bbA |-> {}, bb2 |-> {}, bb3 |-> {}, bb4 |-> {}, bbX |-> {}, bbO |-> {},
   bbCollapsed |-> {}, turn |-> 0]

\* The locals of main at its start, for the command line p, and what is
\* remembered of the process for the properties: preloaded (seen when the
\* loops start), solved (the states given to solve), made (the (key, turn)
\* of the records produced).  history outlives the process.
fresh_process(p, history) ==
  [pc |-> "start", stride |-> p.stride, offset |-> p.offset,
   limit |-> p.limit, batch |-> p.batch, seenPaths |-> p.seenPaths,
   dumpdir |-> p.dumpdir, existingCount |-> 0, pos |-> 1, buf |-> <<>>, seen |-> {}, produced |-> 0, after |-> "loop",
   preloaded |-> {}, solved |-> <<>>, made |-> <<>>, history |-> history]

\* Nothing has happened yet: log is every state given to solve, lost the
\* (key, turn) of the records a kill took from the buffer, kills the number
\* of kills and cut the bytes of a batch the last kill let through.
NoHistory == [log |-> <<>>, lost |-> <<>>, kills |-> 0, cut |-> 0]

\* The history after a kill that let the first cut bytes of buf through.
killed(history, buf, cut) ==
  [history EXCEPT
     !.kills = @ + 1,
     !.cut = cut,
     !.lost = @ \o [i \in 1 .. (Len(buf) - (cut \div sizeof_Record)) |->
                      KeyTurn(buf[(cut \div sizeof_Record) + i])]]

InitEnum ==
  /\ state = ZeroState
  /\ call = NoCall
  /\ SolverInit
  /\ enum \in {fresh_process(p, NoHistory) : p \in EnumParams}
  /\ files = [out |-> NoFile, other |-> OtherDb, bak |-> NoFile]

\* existingCount = truncate_to_multiple_and_count(out, recSize)
TruncateAtStartup ==
  /\ enum.pc = "start"
  /\ LET r == truncate_to_multiple_and_count(files.out, sizeof_Record)
     IN  /\ files' = [files EXCEPT !.out = r.file]
         /\ call' = [op |-> "truncate_to_multiple_and_count",
                     in |-> files.out, arg |-> <<sizeof_Record>>, out |-> r]
  /\ enum' = [enum EXCEPT
                !.pc = "load",
                !.existingCount =
                   truncate_to_multiple_and_count(files.out,
                                                  sizeof_Record).count]
  /\ UNCHANGED state
  /\ UNCHANGED solverVars

RECURSIVE load_seen_paths(_, _, _)
\* seen after load_seen_from_db on the first n paths given with --seen.
load_seen_paths(paths, n, seen) ==
  IF n = 0 THEN seen
  ELSE load_seen_from_db(files[paths[n]], load_seen_paths(paths, n - 1, seen))

\* The seen set preloaded from the output database and the --seen files,
\* and the Solver constructed and configured: edges are captured only
\* with --dumpdir.
LoadSeen ==
  /\ enum.pc = "load"
  /\ LET seen == load_seen_paths(enum.seenPaths, Len(enum.seenPaths),
                                 load_seen_from_db(files.out, {}))
     IN  /\ enum' = [enum EXCEPT !.pc = "loop", !.seen = seen,
                                 !.preloaded = seen]
         /\ call' = [op |-> "load_seen", in |-> files.out,
                     arg |-> enum.seenPaths, out |-> seen]
  /\ SetSolver([NewSolver EXCEPT !.capture_edges_ = enum.dumpdir])
  /\ UNCHANGED <<state, files>>

\* The Record built from the Answer of solve.
make_record(key, turn, ans) ==
  [key |-> key, turn |-> turn, win |-> IF ans.win THEN 1 ELSE 0,
   best |-> ans.best_move, plies |-> ans.plies]

\* other_shard that lets every key through.
other_shard_Never(e, key) == FALSE

\* The key is outside the shard of the process e.
other_shard(e, key) == e.stride > 1 /\ mod64(key, e.stride) # e.offset

\* buffered that stops one record after the limit.
buffered_PastLimit(e, s, rec) ==
  [e EXCEPT !.buf = Append(@, rec), !.produced = @ + 1,
            !.seen = @ \cup {KeyTurn(rec)}, !.made = Append(@, KeyTurn(rec)),
            !.solved = Append(@, s), !.history.log = Append(@, s),
            !.pos = @ + 1,
            !.pc = IF \/ Len(e.buf) + 1 >= e.batch
                      \/ (e.limit > 0 /\ e.produced + 1 > e.limit)
                   THEN "flush" ELSE "loop",
            !.after = IF e.limit > 0 /\ e.produced + 1 > e.limit
                      THEN "done" ELSE "loop"]

\* The process after the Record rec is buffered for the state s.
buffered(e, s, rec) ==
  [e EXCEPT !.buf = Append(@, rec), !.produced = @ + 1,
            !.seen = @ \cup {KeyTurn(rec)}, !.made = Append(@, KeyTurn(rec)),
            !.solved = Append(@, s), !.history.log = Append(@, s),
            !.pos = @ + 1,
            !.pc = IF \/ Len(e.buf) + 1 >= e.batch
                      \/ (e.limit > 0 /\ e.produced + 1 >= e.limit)
                   THEN "flush" ELSE "loop",
            !.after = IF e.limit > 0 /\ e.produced + 1 >= e.limit
                      THEN "done" ELSE "loop"]

\* One pass of the innermost loop for a state that is skipped.
SkipRoot ==
  /\ enum.pc = "loop" /\ enum.pos <= Len(CanonRoots)
  /\ \/ other_shard(enum, CanonKeys[enum.pos])
     \/ <<CanonKeys[enum.pos], CanonRoots[enum.pos].turn>> \in enum.seen
  /\ enum' = [enum EXCEPT !.pos = @ + 1]
  /\ call' = [op |-> "skip", in |-> CanonRoots[enum.pos], arg |-> <<>>,
              out |-> <<>>]
  /\ UNCHANGED <<state, files>>
  /\ UNCHANGED solverVars

\* The tree dumps the pass for a root can leave: none without --dumpdir,
\* else what dump_tree_binary writes, for every order of the cache and
\* whether or not the file opens.
root_dumps(e, sv) ==
  IF ~e.dumpdir THEN {NoDump}
  ELSE {dump_tree_binary(sv, keys, opened) :
          keys \in iteration_orders(sv.cache_), opened \in BOOLEAN}

\* One pass of the innermost loop for a state that is solved: solve, the
\* Record buffered, the tree dumped with --dumpdir, clear_cache.
SolveRoot ==
  /\ enum.pc = "loop" /\ enum.pos <= Len(CanonRoots)
  /\ ~other_shard(enum, CanonKeys[enum.pos])
  /\ <<CanonKeys[enum.pos], CanonRoots[enum.pos].turn>> \notin enum.seen
  /\ LET s == CanonRoots[enum.pos]
         r == solve(SolverObject, s)
     IN  /\ state' = s
         /\ \E dump \in root_dumps(enum, r.sv) :
              call' = [op |-> "solve", in |-> s, arg |-> <<>>,
                       out |-> r.ans, dump |-> dump]
         /\ SetSolver(clear_cache(r.sv))
         /\ enum' = buffered(enum, s,
                             make_record(CanonKeys[enum.pos], s.turn, r.ans))
  /\ UNCHANGED files

\* The loops are over: the rest of the buffer is written, or main returns.
EndOfLoop ==
  /\ enum.pc = "loop" /\ enum.pos > Len(CanonRoots)
  /\ enum' = [enum EXCEPT !.pc = IF enum.buf # <<>> THEN "flush" ELSE "done",
                          !.after = "done"]
  /\ call' = [op |-> "end_of_loop", in |-> files.out, arg |-> <<>>,
              out |-> <<>>]
  /\ UNCHANGED <<state, files>>
  /\ UNCHANGED solverVars

\* The buffer appended to the output database and cleared.
Flush ==
  /\ enum.pc = "flush"
  /\ files' = [files EXCEPT
                 !.out = append_file(@, buffer_bytes(enum.buf, Len(enum.buf)))]
  /\ enum' = [enum EXCEPT !.pc = enum.after, !.buf = <<>>]
  /\ call' = [op |-> "flush", in |-> files.out, arg |-> enum.buf,
              out |-> <<>>]
  /\ UNCHANGED state
  /\ UNCHANGED solverVars

\* The process killed between two writes: its memory is lost.
Kill ==
  /\ enum.pc \in {"start", "load", "loop", "flush"}
  /\ enum.history.kills < MaxKills
  /\ enum' = [enum EXCEPT !.pc = "dead", !.buf = <<>>, !.seen = {},
                          !.history = killed(@, enum.buf, 0)]
  /\ call' = [op |-> "kill", in |-> files.out, arg |-> enum.buf, out |-> <<>>]
  /\ UNCHANGED <<state, files>>
  /\ UNCHANGED solverVars

\* The process killed in the middle of appending the buffer: cut bytes of
\* it reached the file.
KillInFlush ==
  /\ enum.pc = "flush"
  /\ enum.history.kills < MaxKills
  /\ \E cut \in 1 .. (Len(enum.buf) * sizeof_Record - 1) :
       /\ files' = [files EXCEPT
                      !.out = append_file(@,
                                SubSeq(buffer_bytes(enum.buf, Len(enum.buf)),
                                       1, cut))]
       /\ enum' = [enum EXCEPT !.pc = "dead", !.buf = <<>>, !.seen = {},
                               !.history = killed(@, enum.buf, cut)]
       /\ call' = [op |-> "kill_in_flush", in |-> files.out,
                   arg |-> <<cut>>, out |-> <<>>]
  /\ UNCHANGED state
  /\ UNCHANGED solverVars

\* The program started again with the same command line.
Restart ==
  /\ enum.pc \in {"done", "dead"}
  /\ enum' = fresh_process(enum, enum.history)
  /\ call' = [op |-> "restart", in |-> files.out, arg |-> <<>>, out |-> <<>>]
  /\ SetSolver(NewSolver)
  /\ UNCHANGED <<state, files>>

NextEnum ==
  \/ TruncateAtStartup
  \/ LoadSeen
  \/ SkipRoot
  \/ SolveRoot
  \/ EndOfLoop
  \/ Flush
  \/ Kill
  \/ KillInFlush
  \/ Restart

SpecEnum == InitEnum /\ [][NextEnum]_vars

\* The enumerator run with --dumpdir.
InitEnumDump ==
  /\ state = ZeroState
  /\ call = NoCall
  /\ SolverInit
  /\ enum \in {fresh_process(p, NoHistory) : p \in EnumDumpParams}
  /\ files = [out |-> NoFile, other |-> OtherDb, bak |-> NoFile]

SpecEnumDump == InitEnumDump /\ [][NextEnum]_vars

-----------------------------------------------------------------------------
(* solve_norm_db --dedup                                                   *)

MaxRecords == 3   \* records of a database given to --dedup

\* Records of two keys, either turn, with different results.
DedupRecords ==
  {[key |-> CanonKeys[k], turn |-> turn, win |-> win, best |-> NO_MOVE,
    plies |-> 2 * win] : k \in {1, 2}, turn \in {0, 1}, win \in {0, 1}}

\* The databases: missing, or up to MaxRecords records, then a torn tail
\* or none.
DedupInputs ==
  {NoFile}
  \cup {[exists |-> TRUE, bytes |-> buffer_bytes(records, Len(records)) \o tail] :
          records \in UNION {[1 .. n -> DedupRecords] : n \in 0 .. MaxRecords},
          tail \in {<<>>, <<7, 7, 7>>}}

InitDedup ==
  /\ state = ZeroState
  /\ call = NoCall
  /\ SolverInit
  /\ enum = NoEnum
  /\ \E db \in DedupInputs :
       files = [out |-> db, other |-> NoFile, bak |-> NoFile]

\* main with --dedup: dedup_database(out)
Dedup ==
  /\ LET r == dedup_database(files.out, files.bak)
     IN  /\ files' = [files EXCEPT !.out = r.db, !.bak = r.bak]
         /\ call' = [op |-> "dedup_database", in |-> files.out, arg |-> <<>>,
                     out |-> r.code]
  /\ UNCHANGED <<state, enum>>
  /\ UNCHANGED solverVars

NextDedup == Dedup

SpecDedup == InitDedup /\ [][NextDedup]_vars

-----------------------------------------------------------------------------
(* cli --state ARG.  A std::string is the sequence of its characters; an   *)
(* unsigned long is its ULONG_DIGITS hexadecimal digits, least significant *)
(* first, and its arithmetic wraps as the unsigned C++ arithmetic does.    *)

HEX == 16
ULONG_DIGITS == 16    \* hexadecimal digits of an unsigned long (64 bits)
UINT16_DIGITS == 4    \* hexadecimal digits of 0xFFFF

LowerDigits ==
  << "0", "1", "2", "3", "4", "5", "6", "7",
     "8", "9", "a", "b", "c", "d", "e", "f" >>
UpperDigits ==
  << "0", "1", "2", "3", "4", "5", "6", "7",
     "8", "9", "A", "B", "C", "D", "E", "F" >>

\* The value of a hexadecimal digit, -1 for every other character.
digit_value(c) ==
  IF \E i \in 1 .. HEX : LowerDigits[i] = c
  THEN (CHOOSE i \in 1 .. HEX : LowerDigits[i] = c) - 1
  ELSE IF \E i \in 1 .. HEX : UpperDigits[i] = c
  THEN (CHOOSE i \in 1 .. HEX : UpperDigits[i] = c) - 1
  ELSE -1

isspace(c) == c \in {" ", "\t"}

RECURSIVE skip_space(_, _)
\* The index of the first character from i on that is not white space.
skip_space(text, i) ==
  IF i <= Len(text) /\ isspace(text[i]) THEN skip_space(text, i + 1) ELSE i

has_sign(text, i) == i <= Len(text) /\ text[i] \in {"+", "-"}

\* "0x" or "0X" at i, taken as a prefix only when a digit follows it.
has_prefix(text, i) ==
  /\ i + 2 <= Len(text)
  /\ text[i] = "0"
  /\ text[i + 1] \in {"x", "X"}
  /\ digit_value(text[i + 2]) >= 0

RECURSIVE digits_end(_, _)
\* The index after the run of hexadecimal digits that starts at i.
digits_end(text, i) ==
  IF i <= Len(text) /\ digit_value(text[i]) >= 0
  THEN digits_end(text, i + 1) ELSE i

RECURSIVE digit_values(_, _, _)
\* The digit values of text[i .. last], most significant first.
digit_values(text, i, last) ==
  IF i > last THEN <<>>
  ELSE <<digit_value(text[i])>> \o digit_values(text, i + 1, last)

RECURSIVE significant(_, _, _)
\* The digit values of text[i .. last] without the leading zeros.
significant(text, i, last) ==
  IF i > last THEN <<>>
  ELSE IF digit_value(text[i]) = 0 THEN significant(text, i + 1, last)
  ELSE digit_values(text, i, last)

RECURSIVE ulong_from(_, _)
\* The unsigned long of the digits (most significant first): digit i of
\* the result, least significant first, from i on.
ulong_from(digits, i) ==
  IF i > ULONG_DIGITS THEN <<>>
  ELSE <<IF i <= Len(digits) THEN digits[Len(digits) + 1 - i] ELSE 0>>
       \o ulong_from(digits, i + 1)

RECURSIVE negate_from(_, _, _)
\* The digits of 0 - value from digit i on, given the carry into digit i.
negate_from(value, i, carry) ==
  IF i > ULONG_DIGITS THEN <<>>
  ELSE <<((HEX - 1 - value[i]) + carry) % HEX>>
       \o negate_from(value, i + 1, ((HEX - 1 - value[i]) + carry) \div HEX)

\* Unsigned negation, as strtoul applies it for a minus sign.
negate(value) == negate_from(value, 1, 1)

\* The conversion once the digits text[first .. stop - 1] are found after
\* a sign at p or none.
stoul_digits(text, p, first, stop, digits) ==
  IF stop = first \/ Len(digits) > ULONG_DIGITS
  THEN [thrown |-> TRUE, endIndex |-> 0, value |-> ulong_from(<<>>, 1)]
  ELSE [thrown |-> FALSE, endIndex |-> stop - 1,
        value |-> IF has_sign(text, p) /\ text[p] = "-"
                  THEN negate(ulong_from(digits, 1))
                  ELSE ulong_from(digits, 1)]

stoul_run(text, p, first, stop) ==
  stoul_digits(text, p, first, stop, significant(text, first, stop - 1))

stoul_from(text, p, q) ==
  stoul_run(text, p, IF has_prefix(text, q) THEN q + 2 ELSE q,
            digits_end(text, IF has_prefix(text, q) THEN q + 2 ELSE q))

stoul_signed(text, p) ==
  stoul_from(text, p, IF has_sign(text, p) THEN p + 1 ELSE p)

\* std::stoul(text, &endIndex, 16): white space, a sign, "0x", digits.  It
\* throws when no digit can be converted and when the digits do not fit an
\* unsigned long; the sign is applied to the converted value afterwards.
stoul(text) == stoul_signed(text, skip_space(text, 1))

\* parsedValue > 0xFFFFUL
above_uint16(value) ==
  \E i \in (UINT16_DIGITS + 1) .. ULONG_DIGITS : value[i] # 0

\* static_cast<uint16_t>(parsedValue)
to_uint16(value) ==
  value[1] + (HEX * value[2]) + (HEX * HEX * value[3])
    + (HEX * HEX * HEX * value[4])

\* The rest of parse_hex16 once stoul has returned r or thrown.
hex16_checked(text, r) ==
  IF r.thrown THEN [ok |-> FALSE, value |-> 0]
  ELSE IF r.endIndex # Len(text) \/ above_uint16(r.value)
  THEN [ok |-> FALSE, value |-> 0]
  ELSE [ok |-> TRUE, value |-> to_uint16(r.value)]

\* parse_hex16: the bool returned and outValue.
parse_hex16(text) == hex16_checked(text, stoul(text))

RECURSIVE split_from(_, _, _)
\* The parts emplaced by the loop of parse_state_arg from index i on, the
\* current part starting at start.
split_from(arg, i, start) ==
  IF i > Len(arg) + 1 THEN <<>>
  ELSE IF i = Len(arg) + 1 \/ arg[i] = ","
  THEN <<SubSeq(arg, start, i - 1)>> \o split_from(arg, i + 1, i + 1)
  ELSE split_from(arg, i + 1, start)

\* The bitboard a uint16_t is: the cells of its set bits.
bits_of(value) == {c \in Cells : (value \div (2 ^ c)) % 2 = 1}

\* state_of that keeps the whole low byte of the eighth value as turn.
state_of_TurnUnmasked(values) ==
  [bbA |-> bits_of(values[1]), bb2 |-> bits_of(values[2]),
   bb3 |-> bits_of(values[3]), bb4 |-> bits_of(values[4]),
   bbX |-> bits_of(values[5]), bbO |-> bits_of(values[6]),
   bbCollapsed |-> bits_of(values[7]), turn |-> values[8] % BYTE]

\* outState as parse_state_arg assigns it from the eight values.
state_of(values) ==
  [bbA |-> bits_of(values[1]), bb2 |-> bits_of(values[2]),
   bb3 |-> bits_of(values[3]), bb4 |-> bits_of(values[4]),
   bbX |-> bits_of(values[5]), bbO |-> bits_of(values[6]),
   bbCollapsed |-> bits_of(values[7]), turn |-> values[8] % 2]

RECURSIVE parse_parts(_, _)
RECURSIVE parse_next(_, _, _)
\* parse_hex16 of the parts from the i-th on, up to the first that fails.
parse_parts(parts, i) ==
  IF i > Len(parts) THEN <<>>
  ELSE parse_next(parts, i, parse_hex16(parts[i]))

parse_next(parts, i, r) ==
  IF ~r.ok THEN <<r>> ELSE <<r>> \o parse_parts(parts, i + 1)

STATE_PARTS == 8

\* The rest of parse_state_arg once the eight parts are parsed, or the
\* first of them that fails.
state_parsed(parsed) ==
  IF Len(parsed) # STATE_PARTS \/ ~parsed[STATE_PARTS].ok
  THEN [ok |-> FALSE, state |-> ZeroState]
  ELSE [ok |-> TRUE,
        state |-> state_of(<< parsed[1].value, parsed[2].value,
                              parsed[3].value, parsed[4].value,
                              parsed[5].value, parsed[6].value,
                              parsed[7].value, parsed[8].value >>)]

state_parts(parts) ==
  IF Len(parts) # STATE_PARTS THEN [ok |-> FALSE, state |-> ZeroState]
  ELSE state_parsed(parse_parts(parts, 1))

\* parse_state_arg: the bool returned and outState, which a failed parse
\* leaves as the caller passed it (BitState{}).
parse_state_arg(arg) == state_parts(split_from(arg, 1, 1))

BadStateMessage == "Bad --state format. Expect a,2,3,4,x,o,c,turn hex values\n"

\* The line main prints: win, best_move, plies and, when the three root
\* lists are filled and of one length, the list of move:plies:win.
output_line(r) ==
  [win |-> IF r.ans.win THEN 1 ELSE 0, best_move |-> r.ans.best_move,
   plies |-> r.ans.plies,
   top |-> IF /\ r.sv.top_moves_ # <<>>
              /\ Len(r.sv.top_moves_) = Len(r.sv.top_move_plies_)
              /\ Len(r.sv.top_move_wins_) = Len(r.sv.top_moves_)
           THEN <<r.sv.top_moves_, r.sv.top_move_plies_, r.sv.top_move_wins_>>
           ELSE <<>>]

\* The rest of main once solver.solve(state) has returned r.
main_solved(r, parsedState) ==
  [code |-> 0, err |-> "", solved |-> TRUE, line |-> output_line(r),
   state |-> parsedState, sv |-> r.sv]

\* The rest of main once parse_state_arg has returned p.
main_parsed(p) ==
  IF ~p.ok
  THEN [code |-> 2, err |-> BadStateMessage, solved |-> FALSE, line |-> <<>>,
        state |-> p.state, sv |-> NewSolver]
  ELSE main_solved(solve(NewSolver, p.state), p.state)

\* main called with --state arg: exit code, error stream, output, and the
\* locals state and solver.
main_state(arg) == main_parsed(parse_state_arg(arg))

\* A 16-bit value written as four hexadecimal digits.
hex16(value) ==
  << LowerDigits[((value \div (HEX * HEX * HEX)) % HEX) + 1],
     LowerDigits[((value \div (HEX * HEX)) % HEX) + 1],
     LowerDigits[((value \div HEX) % HEX) + 1],
     LowerDigits[(value % HEX) + 1] >>

RECURSIVE join_from(_, _)
\* The parts from the i-th on, with a comma between two parts.
join_from(parts, i) ==
  IF i > Len(parts) THEN <<>>
  ELSE IF i = Len(parts) THEN parts[i]
  ELSE parts[i] \o <<",">> \o join_from(parts, i + 1)

\* The eight values of a state in the order a,2,3,4,x,o,c,turn.
state_values(s) ==
  << MaskValue(s.bbA), MaskValue(s.bb2), MaskValue(s.bb3), MaskValue(s.bb4),
     MaskValue(s.bbX), MaskValue(s.bbO), MaskValue(s.bbCollapsed), s.turn >>

\* The eight 16-bit hexadecimal fields of a state.
state_fields(s) ==
  << hex16(state_values(s)[1]), hex16(state_values(s)[2]),
     hex16(state_values(s)[3]), hex16(state_values(s)[4]),
     hex16(state_values(s)[5]), hex16(state_values(s)[6]),
     hex16(state_values(s)[7]), hex16(state_values(s)[8]) >>

\* A state written as a --state argument.
state_arg(s) == join_from(state_fields(s), 1)

RECURSIVE drop_zeros(_)
drop_zeros(text) ==
  IF Len(text) > 1 /\ text[1] = "0" THEN drop_zeros(Tail(text)) ELSE text

RECURSIVE upper_from(_, _)
upper_from(text, i) ==
  IF i > Len(text) THEN <<>>
  ELSE <<UpperDigits[digit_value(text[i]) + 1]>> \o upper_from(text, i + 1)

RECURSIVE hex_ulong_from(_, _)
\* The digits of an unsigned long written most significant first.
hex_ulong_from(value, i) ==
  IF i < 1 THEN <<>>
  ELSE <<LowerDigits[value[i] + 1]>> \o hex_ulong_from(value, i - 1)

\* The numeral -N whose N is 2^64 - value: strtoul converts it to value.
wrapped(value) ==
  <<"-">> \o hex_ulong_from(negate(ulong_from(digit_values(hex16(value), 1, 4), 1)),
                           ULONG_DIGITS)

\* Ways a user writes the value of one field, and ways to spoil it.
field_variants(value) ==
  { hex16(value), drop_zeros(hex16(value)), upper_from(hex16(value), 1),
    <<"0", "x">> \o hex16(value), <<"0", "X">> \o drop_zeros(hex16(value)),
    <<"+">> \o hex16(value), <<" ">> \o hex16(value),
    <<"\t", "+", "0", "x">> \o hex16(value),
    <<"0", "0", "0">> \o hex16(value),
    <<"-">> \o hex16(value), wrapped(value),
    <<"1">> \o hex16(value), hex16(value) \o <<" ">>,
    hex16(value) \o <<"g">>, <<"0", "x">> \o hex16(value) \o <<"x">>,
    <<>>, <<"g">>, <<"0", "x">>, <<"-">>, <<" ">>,
    <<"1">> \o hex_ulong_from(ulong_from(<<>>, 1), ULONG_DIGITS) }

\* Other values of the turn field.
turn_variants ==
  { <<"2">>, <<"3">>, hex16(U16 - 2), hex16(U16 - 1), <<"1", "0", "0", "0", "0">> }

\* The arguments given for a state: the state written, one field of it
\* written another way or spoilt, a field missing, a field too many.
CliArgs(s) ==
  { state_arg(s) }
  \cup UNION { { join_from([state_fields(s) EXCEPT ![k] = v], 1) :
                    v \in field_variants(state_values(s)[k]) } :
                 k \in 1 .. STATE_PARTS }
  \cup { join_from([state_fields(s) EXCEPT ![STATE_PARTS] = v], 1) :
           v \in turn_variants }
  \cup { join_from(SubSeq(state_fields(s), 1, STATE_PARTS - 1), 1),
         join_from(state_fields(s) \o <<hex16(0)>>, 1),
         state_arg(s) \o <<",">>, <<",">> \o state_arg(s), <<>> }

\* The states written: positions of one deal with MaxFree cells left.
CliStates ==
  {s \in RootStates :
     /\ s.bbA = CardMask(Deals[1], 1)
     /\ s.bbCollapsed = Cells \ FreeCells(1, 0)
     /\ s.bbX \in {bit(0), bit(3)}
     /\ s.bbX # s.bbO
     /\ (s.bbX \cup s.bbO) \cap s.bbCollapsed = {}}

InitCli ==
  /\ state \in CliStates
  /\ call = NoCall
  /\ SolverInit
  /\ EnumIdle

\* cli --state arg, for an argument made from the state held.
CliState ==
  /\ call.op = "none"
  /\ \E arg \in CliArgs(state) :
       LET r == main_state(arg)
       IN  /\ SetSolver(r.sv)
           /\ state' = r.state
           /\ call' = [op |-> "cli", in |-> arg, arg |-> <<state>>,
                       out |-> [code |-> r.code, err |-> r.err,
                                solved |-> r.solved, line |-> r.line]]
  /\ UNCHANGED enumVars

NextCli == CliState

SpecCli == InitCli /\ [][NextCli]_vars

-----------------------------------------------------------------------------
(* A game played from a canonical root                                     *)

MaxGamePlies == 14   \* moves played from a root: a whole game

\* The canonical roots of two full deals: nothing collapsed, X on cell 0,
\* O on any other cell, either side to move.
GameRoots ==
  {[bbA |-> CardMask(Deals[d], 1), bb2 |-> CardMask(Deals[d], 2),
    bb3 |-> CardMask(Deals[d], 3), bb4 |-> CardMask(Deals[d], 4),
    bbX |-> bit(0), bbO |-> bit(o), bbCollapsed |-> {}, turn |-> t] :
     d \in {1, 2}, o \in Cells \ {0}, t \in {0, 1}}

\* call.in is the root of the game, call.out the state before the move.
InitGame ==
  /\ state \in GameRoots
  /\ call = [op |-> "root", in |-> state, arg |-> <<>>, out |-> state]
  /\ SolverInit
  /\ EnumIdle

\* One legal move of the side to move: a destination of
\* enumerate_destinations for the card under its piece, applied by
\* apply_move.
PlayGame ==
  /\ Cardinality(state.bbCollapsed) < MaxGamePlies
  /\ \E to \in destinationsMask(state) :
       /\ state' = apply_move(state, currentPlayerIndex(state), to)
       /\ call' = [op |-> "game", in |-> call.in,
                   arg |-> <<currentPlayerIndex(state), to>>, out |-> state]
  /\ UNCHANGED solverVars
  /\ UNCHANGED enumVars

NextGame == PlayGame

SpecGame == InitGame /\ [][NextGame]_vars

-----------------------------------------------------------------------------
(* The derivation tools: gen_index and list_derivations                    *)

\* The members of struct IdxRec in declaration order, with the size and the
\* alignment of their types.
IdxFields ==
  << [name |-> "key", size |-> 8, align |-> 8],
     [name |-> "turn", size |-> 1, align |-> 1],
     [name |-> "a", size |-> 2, align |-> 2],
     [name |-> "b2", size |-> 2, align |-> 2],
     [name |-> "b3", size |-> 2, align |-> 2],
     [name |-> "b4", size |-> 2, align |-> 2],
     [name |-> "x", size |-> 2, align |-> 2],
     [name |-> "o", size |-> 2, align |-> 2],
     [name |-> "c", size |-> 2, align |-> 2],
     [name |-> "pad", size |-> 1, align |-> 1] >>

\* gen_index declares IdxRec under #pragma pack(push, 1); list_derivations
\* declares the same members without it.
GEN_INDEX_PACKED == TRUE
LIST_DERIVATIONS_PACKED == FALSE

\* The alignment of member i: 1 under pack(1).
idx_align(i, packed) == IF packed THEN 1 ELSE IdxFields[i].align

RECURSIVE idx_end(_, _)
\* The offset just past member i of IdxRec.
idx_end(i, packed) ==
  IF i = 0 THEN 0
  ELSE round_up(idx_end(i - 1, packed), idx_align(i, packed))
       + IdxFields[i].size

\* offsetof(IdxRec, member i)
idx_offset(i, packed) == round_up(idx_end(i - 1, packed), idx_align(i, packed))

\* alignof(IdxRec)
alignof_IdxRec(packed) ==
  CHOOSE a \in {idx_align(i, packed) : i \in DOMAIN IdxFields} :
    \A i \in DOMAIN IdxFields : idx_align(i, packed) <= a

\* sizeof(IdxRec)
sizeof_IdxRec(packed) ==
  round_up(idx_end(Len(IdxFields), packed), alignof_IdxRec(packed))

\* n bytes of an object that IdxRec rec{} has zeroed.
zeros(n) == [i \in 1 .. n |-> 0]

\* The two bytes of a uint16_t, and the uint16_t at an offset of a block.
le16(value) == << value % BYTE, (value \div BYTE) % BYTE >>
u16_at(block, offset) == block[offset + 1] + (BYTE * block[offset + 2])

\* The bytes of member i of the IdxRec rec.
idx_field_bytes(rec, i) ==
  IF i = 1 THEN rec.key
  ELSE IF i = 2 THEN <<rec.turn>>
  ELSE IF i = 3 THEN le16(rec.a)
  ELSE IF i = 4 THEN le16(rec.b2)
  ELSE IF i = 5 THEN le16(rec.b3)
  ELSE IF i = 6 THEN le16(rec.b4)
  ELSE IF i = 7 THEN le16(rec.x)
  ELSE IF i = 8 THEN le16(rec.o)
  ELSE IF i = 9 THEN le16(rec.c)
  ELSE <<rec.pad>>

RECURSIVE idx_prefix(_, _, _)
\* The bytes of the IdxRec rec up to the end of member i.
idx_prefix(rec, i, packed) ==
  IF i = 0 THEN <<>>
  ELSE idx_prefix(rec, i - 1, packed)
       \o zeros(idx_offset(i, packed) - idx_end(i - 1, packed))
       \o idx_field_bytes(rec, i)

\* The object representation of the IdxRec rec: what out.write puts in the
\* index.
idx_bytes(rec, packed) ==
  idx_prefix(rec, Len(IdxFields), packed)
  \o zeros(sizeof_IdxRec(packed) - idx_end(Len(IdxFields), packed))

\* The IdxRec held by sizeof(IdxRec) bytes read from a file.
idx_record_of(block, packed) ==
  [key |-> SubSeq(block, idx_offset(1, packed) + 1, idx_offset(1, packed) + 8),
   turn |-> block[idx_offset(2, packed) + 1],
   a |-> u16_at(block, idx_offset(3, packed)),
   b2 |-> u16_at(block, idx_offset(4, packed)),
   b3 |-> u16_at(block, idx_offset(5, packed)),
   b4 |-> u16_at(block, idx_offset(6, packed)),
   x |-> u16_at(block, idx_offset(7, packed)),
   o |-> u16_at(block, idx_offset(8, packed)),
   c |-> u16_at(block, idx_offset(9, packed)),
   pad |-> block[idx_offset(10, packed) + 1]]

RECURSIVE read_idx(_, _, _)
\* The IdxRecs the loop "while (idxIn.read(&rec, sizeof(rec)))" reads from
\* the first n whole records of bytes.
read_idx(bytes, n, packed) ==
  IF n = 0 THEN <<>>
  ELSE Append(read_idx(bytes, n - 1, packed),
              idx_record_of(SubSeq(bytes, (n - 1) * sizeof_IdxRec(packed) + 1,
                                   n * sizeof_IdxRec(packed)),
                            packed))

\* Every IdxRec a reader gets from a file; none from one it cannot open.
idx_records(file, packed) ==
  IF file.exists
  THEN read_idx(file.bytes, Len(file.bytes) \div sizeof_IdxRec(packed), packed)
  ELSE <<>>

\* A file that exists and cannot be opened for writing carries the field
\* readonly.
can_append(file) == "readonly" \notin DOMAIN file

\* detect_rec_size
detect_rec_size(file) ==
  IF ~file.exists THEN 24
  ELSE IF Len(file.bytes) % 24 = 0 THEN 24
  ELSE IF Len(file.bytes) % 16 = 0 THEN 16
  ELSE 24

ZeroKey == zeros(8)

\* load_solved_keys keeps a record whose key is not 0 and whose turn is 0
\* or 1.
plausible(key, turn) == key # ZeroKey /\ turn <= 1

\* The recSize == 16 branch: whole DBRec16 objects, which have the members
\* of Record and so its size.
keys_16(file) ==
  {KeyTurn(file_records(file)[i]) :
     i \in {j \in DOMAIN file_records(file) :
              plausible(file_records(file)[j].key, file_records(file)[j].turn)}}

RECURSIVE keys_24(_, _, _)
\* The other branch, from offset p on: 8 bytes of key and 1 of turn are
\* read, the rest of the record is skipped with seekg.
keys_24(bytes, p, recSize) ==
  IF p + 9 > Len(bytes) THEN {}
  ELSE (IF plausible(SubSeq(bytes, p + 1, p + 8), bytes[p + 9])
        THEN {<< SubSeq(bytes, p + 1, p + 8), bytes[p + 9] >>}
        ELSE {})
       \cup keys_24(bytes, p + recSize, recSize)

\* load_solved_keys: the (key, turn) inserted in out.
load_solved_keys(file) ==
  IF ~file.exists THEN {}
  ELSE IF detect_rec_size(file) = 16 THEN keys_16(file)
  ELSE keys_24(file.bytes, 0, detect_rec_size(file))

\* What load_solved_keys writes on std::cerr.
load_solved_error(file, path) ==
  IF ~file.exists
  THEN << <<"gen_index: cannot open solved db: ", path>> >>
  ELSE <<>>

\* The IdxRec gen_index fills for the state at place pos of the loop nest.
idx_rec(pos) ==
  [key |-> CanonKeys[pos], turn |-> CanonRoots[pos].turn,
   a |-> MaskValue(CanonRoots[pos].bbA), b2 |-> MaskValue(CanonRoots[pos].bb2),
   b3 |-> MaskValue(CanonRoots[pos].bb3), b4 |-> MaskValue(CanonRoots[pos].bb4),
   x |-> MaskValue(CanonRoots[pos].bbX), o |-> MaskValue(CanonRoots[pos].bbO),
   c |-> MaskValue(CanonRoots[pos].bbCollapsed), pad |-> 0]

\* One pass of the loop over turn, for the state at place pos: w carries
\* wanted, the bytes written to out and the counter written.
index_turn(w, pos, p) ==
  IF other_shard(p, CanonKeys[pos]) THEN w
  ELSE IF << CanonKeys[pos], CanonRoots[pos].turn >> \in w.wanted
  THEN [wanted |-> w.wanted \ {<< CanonKeys[pos], CanonRoots[pos].turn >>},
        bytes |-> w.bytes \o idx_bytes(idx_rec(pos), GEN_INDEX_PACKED),
        written |-> w.written + 1]
  ELSE w

RECURSIVE index_boards(_, _, _)
\* The loop nest after the two turns of the board at place pos.
index_after(w, pos, p) ==
  IF w.wanted = {}
  THEN [line |-> "gen_index DONE", written |-> w.written,
        still_missing |-> 0, bytes |-> w.bytes]
  ELSE index_boards(w, pos + 2, p)

\* The loop nest from the board at place pos on.
index_boards(w, pos, p) ==
  IF pos > Len(CanonRoots)
  THEN [line |-> "gen_index FINISHED", written |-> w.written,
        still_missing |-> Cardinality(w.wanted), bytes |-> w.bytes]
  ELSE index_after(index_turn(index_turn(w, pos, p), pos + 1, p), pos, p)

\* main once the loop nest has ended as e.
gen_index_written(fs, e) ==
  [files |-> [fs EXCEPT !.index = append_file(@, e.bytes)],
   code |-> 0, err |-> <<>>,
   log |-> << [line |-> e.line, written |-> e.written,
               still_missing |-> e.still_missing] >>]

\* main once the keys of the index are taken off wanted.
gen_index_wanted(fs, p, wanted) ==
  IF wanted = {}
  THEN [files |-> fs, code |-> 0, err |-> <<>>,
        log |-> << [line |-> "gen_index: nothing to do; index already covers DB",
                    written |-> 0, still_missing |-> 0] >>]
  ELSE IF ~can_append(fs.index)
  THEN [files |-> fs, code |-> 2,
        err |-> << <<"gen_index: cannot open index for append: ", "index">> >>,
        log |-> <<>>]
  ELSE gen_index_written(fs, index_boards([wanted |-> wanted, bytes |-> <<>>,
                                           written |-> 0], 1, p))

\* main once load_solved_keys has returned wanted.
gen_index_loaded(fs, p, wanted) ==
  IF wanted = {}
  THEN [files |-> fs, code |-> 0,
        err |-> load_solved_error(fs.db, "db")
                \o << <<"gen_index: no keys loaded from ", "db">> >>,
        log |-> <<>>]
  ELSE gen_index_wanted(fs, p,
         wanted \ KeyTurns(idx_records(fs.index, GEN_INDEX_PACKED)))

\* gen_index --db db --out index --stride p.stride --offset p.offset: the
\* files after it, the exit code, std::cerr and the last line of std::cout
\* (the progress lines, which depend on the clock, are left out).
gen_index(fs, p) == gen_index_loaded(fs, p, load_solved_keys(fs.db))

\* rc_to_idx4
rc_to_idx4(r, c) == ((r % 4) * 4) + (c % 4)

\* shift_mask: every cell of the mask moved dr rows and dc columns on the
\* torus.
shift_mask(m, dr, dc) ==
  {rc_to_idx4(((i \div 4) + dr) % 4, ((i % 4) + dc) % 4) : i \in m}

\* card_char
card_char(a, b2, b3, b4, idx) ==
  IF idx \in a THEN "A"
  ELSE IF idx \in b2 THEN "2"
  ELSE IF idx \in b3 THEN "3"
  ELSE IF idx \in b4 THEN "4"
  ELSE "."

\* print_overlay_grid: the character printed for each cell, row by row.
print_overlay_grid(a, b2, b3, b4, x, o, collapsed) ==
  [n \in 1 .. BOARD_N |->
     IF (n - 1) \in x THEN "X"
     ELSE IF (n - 1) \in o THEN "O"
     ELSE IF (n - 1) \in collapsed THEN "#"
     ELSE card_char(a, b2, b3, b4, n - 1)]

\* The two hexadecimal digits of a byte.
hex_byte(b) == << LowerDigits[(b \div HEX) + 1], LowerDigits[(b % HEX) + 1] >>

RECURSIVE hex_key(_, _)
\* %016llx of a key, from its byte i down to its lowest byte.
hex_key(k, i) == IF i = 0 THEN <<>> ELSE hex_byte(k[i]) \o hex_key(k, i - 1)

RECURSIVE decimal(_)
\* %u
decimal(n) ==
  IF n < 10 THEN << LowerDigits[n + 1] >>
  ELSE decimal(n \div 10) \o << LowerDigits[(n % 10) + 1] >>

\* key_string
key_string(k, turn) == hex_key(k, 8) \o <<"|">> \o decimal(turn)

\* What the loop over dr and dc prints in its n-th pass: the labels are
\* written as the program writes them, dr= before dc and dc= before dr.
shift_lines(a, b2, b3, b4, x, o, c, dr, dc) ==
  [dr |-> dc, dc |-> dr,
   raw0 |-> key_string(hash_state(shift_mask(a, dr, dc), shift_mask(b2, dr, dc),
                                  shift_mask(b3, dr, dc), shift_mask(b4, dr, dc),
                                  shift_mask(x, dr, dc), shift_mask(o, dr, dc),
                                  c, 0), 0),
   raw1 |-> key_string(hash_state(shift_mask(a, dr, dc), shift_mask(b2, dr, dc),
                                  shift_mask(b3, dr, dc), shift_mask(b4, dr, dc),
                                  shift_mask(x, dr, dc), shift_mask(o, dr, dc),
                                  c, 1), 1),
   board |-> print_overlay_grid(shift_mask(a, dr, dc), shift_mask(b2, dr, dc),
                                shift_mask(b3, dr, dc), shift_mask(b4, dr, dc),
                                shift_mask(x, dr, dc), shift_mask(o, dr, dc), c)]

\* What is printed for a root with the matching index record.
match_lines(match) ==
  [line |-> "normalized_key",
   key |-> key_string(match.key, match.turn),
   board |-> print_overlay_grid(bits_of(match.a), bits_of(match.b2),
                                bits_of(match.b3), bits_of(match.b4),
                                bits_of(match.x), bits_of(match.o),
                                bits_of(match.c)),
   shifts |-> [n \in 1 .. BOARD_N |->
                 shift_lines(bits_of(match.a), bits_of(match.b2),
                             bits_of(match.b3), bits_of(match.b4),
                             bits_of(match.x), bits_of(match.o),
                             bits_of(match.c),
                             (n - 1) \div 4, (n - 1) % 4)]]

RECURSIVE match_from(_, _, _, _)
\* The place of the first record of idx from i on with the key and turn,
\* 0 when there is none.
match_from(idx, i, rootKey, turn) ==
  IF i > Len(idx) THEN 0
  ELSE IF idx[i].key = rootKey /\ idx[i].turn = turn THEN i
  ELSE match_from(idx, i + 1, rootKey, turn)

\* What is printed for one root, given the place of its match.
root_lines(idx, rootKey, turn, match) ==
  IF match = 0
  THEN [line |-> "missing index", key |-> key_string(rootKey, turn)]
  ELSE match_lines(idx[match])

\* The loop over roots.
derivations(roots, n, idx) ==
  [i \in 1 .. n |->
     root_lines(idx, roots[i].key, roots[i].turn,
                match_from(idx, 1, roots[i].key, roots[i].turn))]

\* The number of Recs read: count at most, whole ones only.
roots_read(file, count) ==
  IF Len(file_records(file)) < count THEN Len(file_records(file)) ELSE count

\* list_derivations --db db --index index --count count: the exit code,
\* std::cerr and std::cout.
list_derivations(fs, count) ==
  IF ~fs.db.exists
  THEN [code |-> 2, err |-> << <<"Cannot open db: ", "db">> >>, out |-> <<>>]
  ELSE IF ~fs.index.exists
  THEN [code |-> 3,
        err |-> << <<"Cannot open index: ", "index",
                     " (rerun solver to build index)">> >>,
        out |-> <<>>]
  ELSE [code |-> 0, err |-> <<>>,
        out |-> derivations(file_records(fs.db), roots_read(fs.db, count),
                            idx_records(fs.index, LIST_DERIVATIONS_PACKED))]

MaxCount == 2   \* --count

\* A solved database holding the records of the states at the given places
\* of the loop nest, in that order.
RECURSIVE db_of(_, _)
db_of(places, i) ==
  IF i = 0 THEN <<>>
  ELSE db_of(places, i - 1)
       \o record_bytes([key |-> CanonKeys[places[i]],
                        turn |-> CanonRoots[places[i]].turn,
                        win |-> 0, best |-> NO_MOVE, plies |-> 0])

\* The databases given with --db: none, an empty one, whole records, a torn
\* tail, a size that is a multiple of 16 only, records load_solved_keys
\* drops, a tail of nine bytes, and records out of the loop nest's order.
IndexDbs ==
  { NoFile,
    [exists |-> TRUE, bytes |-> <<>>],
    [exists |-> TRUE, bytes |-> db_of(<<2, 5>>, 2)],
    OtherDb,
    [exists |-> TRUE, bytes |-> db_of(<<4>>, 1) \o <<7, 7, 7, 7, 7, 7, 7, 7>>],
    [exists |-> TRUE,
     bytes |-> record_bytes([key |-> ZeroKey, turn |-> 0, win |-> 0,
                             best |-> NO_MOVE, plies |-> 0])
               \o record_bytes([key |-> CanonKeys[1], turn |-> 2, win |-> 0,
                                best |-> NO_MOVE, plies |-> 0])
               \o db_of(<<3>>, 1)],
    [exists |-> TRUE,
     bytes |-> db_of(<<6>>, 1) \o CanonKeys[7] \o <<CanonRoots[7].turn>>],
    [exists |-> TRUE, bytes |-> db_of(<<9, 1, 3, 5, 7, 11>>, 6)] }

\* The bytes of a record that reached the index before its writer died.
TornBytes == 5

\* The files given with --out and --index: none, an index that holds one
\* record, an index that ends in a part of a second record, and a file
\* that cannot be opened for writing.
IndexFiles ==
  { NoFile,
    [exists |-> TRUE, bytes |-> idx_bytes(idx_rec(2), GEN_INDEX_PACKED)],
    [exists |-> TRUE,
     bytes |-> idx_bytes(idx_rec(2), GEN_INDEX_PACKED)
               \o SubSeq(idx_bytes(idx_rec(5), GEN_INDEX_PACKED),
                         1, TornBytes)],
    [exists |-> TRUE, bytes |-> <<>>, readonly |-> TRUE] }

\* --stride and --offset
IndexParams ==
  {[stride |-> 1, offset |-> 0], [stride |-> 2, offset |-> 0],
   [stride |-> 2, offset |-> 1]}

InitIndex ==
  /\ state = ZeroState
  /\ call = NoCall
  /\ SolverInit
  /\ enum = NoEnum
  /\ files \in {[db |-> d, index |-> i] : d \in IndexDbs, i \in IndexFiles}

\* The largest index gen_index is run on, in records.
MaxIndexRecords == 7

\* One run of gen_index on the files.
GenIndex ==
  /\ Len(files.index.bytes)
       <= MaxIndexRecords * sizeof_IdxRec(GEN_INDEX_PACKED)
  /\ \E p \in IndexParams :
       LET r == gen_index(files, p)
       IN  /\ files' = r.files
           /\ call' = [op |-> "gen_index", in |-> files, arg |-> <<p>>,
                       out |-> [code |-> r.code, err |-> r.err,
                                log |-> r.log]]
  /\ UNCHANGED <<state, enum>>
  /\ UNCHANGED solverVars

\* One run of list_derivations on the files.
ListDerivations ==
  /\ \E count \in 1 .. MaxCount :
       LET r == list_derivations(files, count)
       IN  call' = [op |-> "list_derivations", in |-> files,
                    arg |-> <<count>>,
                    out |-> [code |-> r.code, err |-> r.err, log |-> r.out]]
  /\ UNCHANGED <<state, enum, files>>
  /\ UNCHANGED solverVars

NextIndex ==
  \/ GenIndex
  \/ ListDerivations

SpecIndex == InitIndex /\ [][NextIndex]_vars

-----------------------------------------------------------------------------
(* The tree dump: Solver::dump_tree_binary and dump_tree_binary_to_vector. *)

InitDump == Init

\* solver.dump_tree_binary_to_vector(out) with out empty.
DumpTreeToVector ==
  /\ Cardinality(DOMAIN cache_) <= MaxNodes
  /\ \E keys \in iteration_orders(cache_) :
       call' = [op |-> "dump_tree_binary_to_vector", in |-> state,
                arg |-> <<>>,
                out |-> dump_tree_binary_to_vector(SolverObject, keys)]
  /\ UNCHANGED state
  /\ UNCHANGED solverVars
  /\ UNCHANGED enumVars

\* solver.dump_tree_binary(path, rootKey)
DumpTreeBinary ==
  /\ Cardinality(DOMAIN cache_) <= MaxNodes
  /\ \E keys \in iteration_orders(cache_), opened \in BOOLEAN :
       call' = [op |-> "dump_tree_binary", in |-> state,
                arg |-> <<StateKey(state), opened>>,
                out |-> dump_tree_binary(SolverObject, keys, opened)]
  /\ UNCHANGED state
  /\ UNCHANGED solverVars
  /\ UNCHANGED enumVars

\* solver.solve(state) on a Solver whose cache is empty, as after
\* construction or clear_cache.
SolveCleared == cache_ = <<>> /\ Solve

NextDump ==
  \/ SolveCleared
  \/ ClearCache
  \/ DumpTreeToVector
  \/ DumpTreeBinary

SpecDump == InitDump /\ [][NextDump]_vars

-----------------------------------------------------------------------------
(* cli.cpp: random_deal. *)

MaxSeed == 7   \* --seed 0 .. MaxSeed

\* std::mt19937 rng(randomSeed): the first outputs of the generator for
\* the seeds 0, 1, ..., one row per seed, each output as its four bytes,
\* lowest first.
MT19937 ==
  <<
     <<<<172, 10, 127, 140>>, <<47, 170, 196, 151>>, <<117, 166, 22, 183>>, 
       <<192, 204, 33, 216>>, <<67, 179, 78, 154>>, <<251, 82, 162, 219>>, 
       <<195, 118, 125, 139>>, <<103, 125, 229, 216>>, <<9, 164, 116, 108>>, 
       <<211, 222, 161, 159>>, <<21, 81, 89, 165>>, <<242, 214, 102, 98>>, 
       <<36, 183, 5, 112>>, <<87, 58, 43, 76>>, <<70, 60, 75, 228>>, 
       <<216, 189, 132, 14>>, <<88, 154, 178, 246>>, <<140, 205, 204, 69>>, 
       <<58, 57, 41, 98>>, <<193, 66, 72, 122>>>>,
     <<<<37, 244, 193, 106>>, <<235, 128, 71, 255>>, <<140, 47, 103, 184>>, 
       <<72, 20, 188, 238>>, <<255, 126, 7, 0>>, <<137, 195, 204, 32>>, 
       <<203, 170, 101, 77>>, <<133, 30, 193, 255>>, <<79, 203, 145, 37>>, 
       <<192, 83, 112, 60>>, <<144, 128, 163, 23>>, <<129, 80, 134, 101>>, 
       <<204, 191, 174, 47>>, <<71, 30, 78, 99>>, <<237, 170, 118, 88>>, 
       <<252, 121, 116, 171>>, <<134, 141, 146, 101>>, <<25, 125, 127, 239>>, 
       <<178, 228, 239, 137>>, <<20, 213, 167, 216>>>>,
     <<<<168, 92, 157, 111>>, <<15, 138, 97, 47>>, <<237, 25, 163, 6>>, 
       <<72, 118, 121, 238>>, <<22, 174, 182, 140>>, <<43, 121, 158, 242>>, 
       <<210, 73, 113, 111>>, <<75, 132, 24, 124>>, <<104, 57, 157, 107>>, 
       <<7, 173, 14, 82>>, <<162, 210, 144, 84>>, <<177, 129, 136, 39>>, 
       <<95, 218, 99, 52>>, <<75, 170, 232, 178>>, <<213, 138, 136, 158>>, 
       <<47, 20, 181, 30>>, <<63, 43, 182, 76>>, <<31, 125, 52, 124>>, 
       <<218, 202, 78, 68>>, <<148, 25, 251, 161>>>>,
     <<<<106, 23, 1, 141>>, <<152, 6, 27, 18>>, <<249, 44, 73, 181>>, 
       <<131, 230, 6, 215>>, <<184, 187, 120, 74>>, <<200, 99, 15, 31>>, 
       <<0, 153, 197, 130>>, <<21, 99, 190, 145>>, <<253, 43, 152, 228>>, 
       <<147, 74, 227, 111>>, <<202, 118, 115, 229>>, <<107, 171, 204, 4>>, 
       <<249, 91, 38, 32>>, <<169, 198, 102, 10>>, <<138, 222, 13, 53>>, 
       <<149, 155, 117, 63>>, <<119, 244, 44, 13>>, <<166, 253, 242, 23>>, 
       <<224, 233, 216, 112>>, <<148, 246, 223, 177>>>>,
     <<<<122, 68, 143, 247>>, <<174, 32, 143, 230>>, <<183, 105, 23, 140>>, 
       <<197, 194, 53, 44>>, <<129, 215, 1, 249>>, <<104, 249, 9, 219>>, 
       <<87, 46, 254, 182>>, <<200, 193, 233, 155>>, <<50, 91, 158, 178>>, 
       <<137, 113, 249, 152>>, <<58, 164, 81, 55>>, <<252, 254, 54, 36>>, 
       <<103, 31, 237, 249>>, <<109, 56, 121, 57>>, <<94, 78, 152, 1>>, 
       <<55, 171, 203, 178>>, <<183, 115, 195, 64>>, <<57, 181, 54, 231>>, 
       <<104, 127, 78, 111>>, <<164, 222, 9, 162>>>>,
     <<<<99, 139, 212, 56>>, <<206, 72, 32, 14>>, <<239, 79, 232, 222>>, 
       <<189, 230, 209, 212>>, <<230, 139, 235, 52>>, <<118, 220, 29, 93>>, 
       <<144, 21, 42, 235>>, <<73, 232, 188, 250>>, <<8, 132, 8, 125>>, 
       <<228, 130, 254, 22>>, <<231, 62, 155, 156>>, <<190, 135, 144, 101>>, 
       <<155, 137, 18, 196>>, <<112, 202, 168, 90>>, <<158, 10, 183, 132>>, 
       <<208, 78, 148, 124>>, <<7, 30, 251, 75>>, <<204, 112, 166, 253>>, 
       <<143, 127, 14, 48>>, <<113, 140, 235, 206>>>>,
     <<<<138, 123, 146, 228>>, <<201, 202, 141, 242>>, <<227, 160, 252, 84>>, 
       <<212, 167, 155, 53>>, <<106, 18, 60, 210>>, <<109, 253, 114, 16>>, 
       <<79, 161, 172, 10>>, <<106, 125, 191, 94>>, <<80, 99, 143, 27>>, 
       <<62, 217, 42, 252>>, <<25, 85, 85, 152>>, <<1, 250, 118, 25>>, 
       <<75, 28, 162, 135>>, <<77, 237, 196, 155>>, <<185, 246, 54, 107>>, 
       <<26, 16, 200, 135>>, <<239, 73, 221, 85>>, <<161, 236, 154, 123>>, 
       <<236, 110, 93, 159>>, <<110, 234, 64, 211>>>>,
     <<<<175, 240, 136, 19>>, <<196, 228, 50, 58>>, <<25, 194, 168, 199>>, 
       <<246, 41, 168, 81>>, <<67, 150, 59, 112>>, <<211, 208, 108, 250>>, 
       <<151, 3, 53, 185>>, <<103, 54, 161, 116>>, <<92, 133, 93, 250>>, 
       <<185, 236, 217, 78>>, <<142, 221, 218, 137>>, <<23, 10, 141, 67>>, 
       <<72, 110, 73, 128>>, <<89, 209, 52, 22>>, <<110, 241, 113, 18>>, 
       <<42, 250, 91, 107>>, <<218, 106, 184, 68>>, <<136, 179, 18, 4>>, 
       <<167, 76, 248, 127>>, <<230, 151, 27, 135>>>>,
     <<<<195, 17, 153, 223>>, <<84, 101, 216, 2>>, <<241, 71, 242, 247>>, 
       <<105, 233, 75, 61>>, <<133, 136, 131, 222>>, <<218, 243, 164, 96>>, 
       <<136, 40, 230, 135>>, <<83, 155, 3, 209>>, <<104, 21, 148, 59>>, 
       <<191, 46, 31, 108>>, <<48, 8, 235, 2>>, <<109, 55, 174, 156>>, 
       <<85, 52, 51, 110>>, <<60, 179, 28, 196>>, <<177, 127, 0, 103>>, 
       <<115, 144, 228, 102>>, <<202, 1, 206, 133>>, <<155, 50, 65, 223>>, 
       <<108, 226, 119, 122>>, <<13, 17, 43, 237>>>>,
     <<<<126, 225, 167, 2>>, <<92, 81, 77, 93>>, <<126, 218, 122, 128>>, 
       <<245, 1, 199, 127>>, <<182, 255, 234, 126>>, <<56, 88, 238, 1>>, 
       <<251, 166, 66, 34>>, <<150, 19, 244, 80>>, <<125, 100, 97, 36>>, 
       <<65, 18, 105, 3>>, <<22, 118, 243, 55>>, <<180, 145, 145, 224>>, 
       <<59, 90, 35, 107>>, <<40, 245, 52, 35>>, <<250, 142, 131, 63>>, 
       <<241, 40, 124, 35>>, <<248, 238, 132, 21>>, <<117, 198, 88, 101>>, 
       <<91, 153, 114, 88>>, <<161, 173, 161, 126>>>>
  >>

\* The n-th rng() of the generator seeded with seed, as the uint_fast32_t
\* (a 64-bit word) it returns.
rng(seed, n) == MT19937[seed + 1][n] \o <<0, 0, 0, 0>>

\* int remainingCardCounts[4] = {4, 4, 4, 2}
remainingCardCounts0 == <<4, 4, 4, 2>>

\* totalRemainingCards
totalRemainingCards(counts) == counts[1] + counts[2] + counts[3] + counts[4]

RECURSIVE select_card(_, _, _, _)
\* The loop `for (; selected < 4; ++selected)`: the value of selected
\* when it ends.
select_card(counts, randomPick, selected, accumulated) ==
  IF selected >= 4 THEN selected
  ELSE IF randomPick < accumulated + counts[selected + 1] THEN selected
  ELSE select_card(counts, randomPick, selected + 1,
                   accumulated + counts[selected + 1])

\* The if chain that puts bit(i) in the mask of the selected card.
deal_cell(s, i, selected) ==
  IF selected = 0 THEN [s EXCEPT !.bbA = @ \cup bit(i)]
  ELSE IF selected = 1 THEN [s EXCEPT !.bb2 = @ \cup bit(i)]
  ELSE IF selected = 2 THEN [s EXCEPT !.bb3 = @ \cup bit(i)]
  ELSE [s EXCEPT !.bb4 = @ \cup bit(i)]

\* remainingCardCounts[selected]--, for a selected inside the array.
take_card(counts, selected) ==
  IF selected < 4 THEN [counts EXCEPT ![selected + 1] = @ - 1] ELSE counts

\* What rng() % totalRemainingCards does when totalRemainingCards is 0,
\* which the language leaves undefined: the division traps and the process
\* is killed by SIGFPE (x86), or it yields some value and the if chain
\* puts the cell in the mask of some card.
DivisionByZero ==
  {[trap |-> TRUE, selected |-> <<0, 0>>]}
    \cup {[trap |-> FALSE, selected |-> <<a, b>>] : a, b \in 0 .. 3}

RECURSIVE deal_loop(_, _, _, _, _, _)
\* One pass of the loop for the cell i and the selected card, then the
\* rest of the loop.
deal_step(s, counts, i, seed, ub, selected) ==
  deal_loop(deal_cell(s, i, selected), take_card(counts, selected),
            i + 1, seed, ub, 0)

\* The loop over the cells from i on: the state, and whether the loop
\* ended. divisions is the number of divisions by zero so far.
deal_loop(s, counts, i, seed, ub, divisions) ==
  IF i >= BOARD_N THEN [completed |-> TRUE, state |-> s]
  ELSE IF totalRemainingCards(counts) = 0
  THEN IF ub.trap THEN [completed |-> FALSE, state |-> s]
       ELSE deal_loop(deal_cell(s, i, ub.selected[divisions + 1]), counts,
                      i + 1, seed, ub, divisions + 1)
  ELSE deal_step(s, counts, i, seed, ub,
                 select_card(counts,
                             mod64(rng(seed, i + 1),
                                   totalRemainingCards(counts)), 0, 0))

RECURSIVE draw_o(_, _, _)
\* while (oIndex == xIndex) oIndex = rng() % BOARD_N, from the n-th rng().
draw_o(seed, n, xIndex) ==
  IF mod64(rng(seed, n), BOARD_N) # xIndex THEN mod64(rng(seed, n), BOARD_N)
  ELSE draw_o(seed, n + 1, xIndex)

\* X and O placed with the 17th rng() and the following ones.
place_pieces(s, seed) ==
  [s EXCEPT !.bbX = bit(mod64(rng(seed, BOARD_N + 1), BOARD_N)),
            !.bbO = bit(draw_o(seed, BOARD_N + 2,
                               mod64(rng(seed, BOARD_N + 1), BOARD_N))),
            !.turn = 0, !.bbCollapsed = {}]

\* The rest of random_deal after the loop over the cells.
deal_pieces(d, seed) ==
  IF d.completed THEN [d EXCEPT !.state = place_pieces(@, seed)] ELSE d

\* random_deal(randomSeed): the BitState returned, or completed = FALSE
\* when the process is killed inside it.
random_deal(seed, ub) ==
  deal_pieces(deal_loop(ZeroState, remainingCardCounts0, 0, seed, ub, 0), seed)

InitDeal ==
  /\ state = ZeroState
  /\ call = NoCall
  /\ SolverInit
  /\ EnumIdle

\* state = random_deal(seed)
RandomDeal ==
  /\ \E seed \in 0 .. MaxSeed, ub \in DivisionByZero :
       LET d == random_deal(seed, ub)
       IN  /\ state' = d.state
           /\ call' = [op |-> "random_deal", in |-> seed, arg |-> <<ub>>,
                       out |-> d]
  /\ UNCHANGED solverVars
  /\ UNCHANGED enumVars

NextDeal == RandomDeal

SpecDeal == InitDeal /\ [][NextDeal]_vars

-----------------------------------------------------------------------------
(* The game's rules, stated without the solver                             *)

\* The states one legal move away from s.
Successors(s) ==
  {apply_move(s, currentPlayerIndex(s), to) : to \in destinationsMask(s)}

\* One orthogonal single step on the 4x4 torus leads from a to b.
Adjacent(a, b) ==
  LET ra == a \div 4  ca == a % 4
      rb == b \div 4  cb == b % 4
  IN  \/ ca = cb /\ (rb = (ra + 1) % 4 \/ ra = (rb + 1) % 4)
      \/ ra = rb /\ (cb = (ca + 1) % 4 \/ ca = (cb + 1) % 4)

Range(p) == {p[i] : i \in 1 .. Len(p)}

RECURSIVE Walks(_, _, _)
\* The sequences of k single steps from start that visit no cell twice
\* and enter no collapsed cell.
Walks(collapsed, start, k) ==
  IF k = 0 THEN {<<start>>}
  ELSE UNION {{Append(p, n) :
                 n \in {c \in Cells : /\ Adjacent(p[Len(p)], c)
                                      /\ c \notin collapsed
                                      /\ c \notin Range(p)}} :
              p \in Walks(collapsed, start, k - 1)}

WalkEnds(collapsed, start, k) ==
  {p[Len(p)] : p \in Walks(collapsed, start, k)}

RECURSIVE ForcedWin(_)
\* The side to move wins s: it has a move into a state the other side
\* loses; a side with no legal destination loses.
ForcedWin(s) == \E n \in Successors(s) : ~ForcedWin(n)

Max(S) == CHOOSE x \in S : \A y \in S : y <= x
Min(S) == CHOOSE x \in S : \A y \in S : x <= y

RECURSIVE Minimax(_)
\* The reference minimax that scores every move: the win flag and the
\* distance to the end in plies.
Minimax(s) ==
  IF Successors(s) = {} THEN [win |-> FALSE, plies |-> 0]
  ELSE LET replies(n) == {Minimax(r) : r \in Successors(n)}
           winning == {n \in Successors(s) : \A a \in replies(n) : a.win}
           winPlies(n) ==
             IF replies(n) = {} THEN 1
             ELSE Max({a.plies + 2 : a \in replies(n)})
           lossPlies(n) ==
             Min({a.plies + 2 : a \in {b \in replies(n) : ~b.win}})
       IN  IF winning # {}
           THEN [win |-> TRUE, plies |-> Min({winPlies(n) : n \in winning})]
           ELSE [win |-> FALSE,
                 plies |-> Max({lossPlies(n) : n \in Successors(s)})]

-----------------------------------------------------------------------------
(* Claims                                                                  *)

Solved == call.op = "solve"
Played == call.op = "apply_move"
Enumerated == call.op = "enumerate_destinations"
OnePiece(s) == Cardinality(s.bbX) = 1 /\ Cardinality(s.bbO) = 1 /\ s.bbX # s.bbO
Terminal(s) == destinationsMask(s) = {}

\* C1: for every state with one X cell, one O cell and X # O, solve returns
\* win = TRUE exactly when the side to move has a forced win under the
\* game's rules (a side with no legal destination loses).
C1_WinIsForcedWin ==
  (Solved /\ OnePiece(call.in)) => (call.out.win = ForcedWin(call.in))

\* A solved state won in more than one ply with a choice of moves.
C1_Witness ==
  /\ Solved /\ OnePiece(call.in)
  /\ call.out.win /\ call.out.plies >= 3
  /\ Cardinality(destinationsMask(call.in)) >= 2

\* C2: the win flag and the plies returned by solve equal those of the
\* reference minimax that scores every legal move without short-circuit.
C2_ValueIsMinimax ==
  Solved =>
    /\ call.out.win = Minimax(call.in).win
    /\ call.out.plies = Minimax(call.in).plies

\* C3: for a non-terminal state the best_move returned by solve encodes
\* from = the cell of the side to move and to = one of its destinations,
\* and when win = TRUE the opponent, after best_move, has no reply or every
\* reply leads to a state that solve answers with win = TRUE.
C3_BestMoveIsLegalAndWins ==
  (Solved /\ ~Terminal(call.in)) =>
    /\ move_from(call.out.best_move) = currentPlayerIndex(call.in)
    /\ move_to(call.out.best_move) \in destinationsMask(call.in)
    /\ call.out.win =>
         \A r \in Successors(after_move(call.in, call.out.best_move)) :
            solve(NewSolver, r).ans.win

\* A solved state whose winning best move leaves the opponent a reply.
C3_Witness ==
  /\ Solved /\ ~Terminal(call.in) /\ call.out.win
  /\ Successors(after_move(call.in, call.out.best_move)) # {}

\* C4: solve returns {win = FALSE, best_move = 0xFF, plies = 0} exactly when
\* the side to move has no legal destination; otherwise best_move # 0xFF and
\* plies >= 1.
C4_TerminalAnswer ==
  Solved =>
    /\ (call.out = [win |-> FALSE, best_move |-> NO_MOVE, plies |-> 0])
         <=> Terminal(call.in)
    /\ ~Terminal(call.in) => (call.out.best_move # NO_MOVE /\ call.out.plies >= 1)
    /\ (call.out.best_move = NO_MOVE)
         <=> (~call.out.win /\ call.out.plies = 0)

\* A solved state that is lost although the side to move has a move.
C4_Witness ==
  Solved /\ ~Terminal(call.in) /\ ~call.out.win /\ call.out.plies >= 2

\* C5: the win flag and the plies returned by solve are those the same
\* solver returns when it examines the moves in destination-index order.
C5_OrderIndependent ==
  Solved =>
    /\ call.out.win = solve(PlainSolver, call.in).ans.win
    /\ call.out.plies = solve(PlainSolver, call.in).ans.plies

\* C6: for steps >= 1 enumerate_destinations returns exactly the cells, other
\* than the opponent's, at the end of a sequence of exactly `steps`
\* orthogonal single steps on the torus from start that visits no cell
\* twice and enters no collapsed cell; one step from cell 0 with O at 5 and
\* nothing collapsed gives {1, 3, 4, 12}.
C6_DestinationsAreWalkEnds ==
  (Enumerated /\ call.arg[2] >= 1) =>
    /\ call.out = WalkEnds(call.in.bbCollapsed, call.arg[1], call.arg[2])
                    \ {call.arg[3]}
    /\ (call.in.bbCollapsed = {} /\ call.arg = <<0, 1, 5>>)
         => call.out = {1, 3, 4, 12}

\* Four steps from cell 3, at the right edge, on a board with collapsed cells.
C6_Witness ==
  /\ Enumerated /\ call.arg[2] = 4 /\ call.arg[1] = 3
  /\ call.in.bbCollapsed # {}
  /\ 0 \notin call.in.bbCollapsed
  /\ call.out # {}

\* C7: the mask enumerate_destinations returns never contains the start
\* cell, the opponent's cell or a collapsed cell.
C7_DestinationsExclude ==
  Enumerated =>
    call.out \cap ({call.arg[1], call.arg[3]} \cup call.in.bbCollapsed) = {}

\* A query whose opponent stands where a walk ends, on a board with
\* collapsed cells.
C7_Witness ==
  /\ Enumerated /\ call.arg[2] >= 2
  /\ call.arg[3] \in WalkEnds(call.in.bbCollapsed, call.arg[1], call.arg[2])
  /\ call.in.bbCollapsed # {}
  /\ call.out # {}

\* C8: for a state whose posX and posO are single distinct bits outside
\* collapsed and a legal move, apply_move returns a state in which posX and
\* posO are single bits, turn is flipped and collapsed is the old collapsed
\* plus exactly one new bit, the from cell.
C8_ApplyMoveEffect ==
  (/\ Played /\ OnePiece(call.in)
   /\ (call.in.bbX \cup call.in.bbO) \cap call.in.bbCollapsed = {}
   /\ call.arg[1] = currentPlayerIndex(call.in)
   /\ call.arg[2] \in destinationsMask(call.in)) =>
    /\ Cardinality(call.out.bbX) = 1
    /\ Cardinality(call.out.bbO) = 1
    /\ call.out.turn = 1 - call.in.turn
    /\ call.out.bbCollapsed = call.in.bbCollapsed \cup {call.arg[1]}
    /\ call.arg[1] \notin call.in.bbCollapsed

\* A move of X applied.
C8_Witness ==
  /\ Played /\ call.in.turn = 0
  /\ call.arg[2] \in destinationsMask(call.in)
  /\ call.out.bbX = {call.arg[2]}

\* C9: apply_move returns a state with the four card masks and the position
\* of the player who did not move unchanged.
C9_ApplyMoveFrame ==
  Played =>
    /\ call.out.bbA = call.in.bbA
    /\ call.out.bb2 = call.in.bb2
    /\ call.out.bb3 = call.in.bb3
    /\ call.out.bb4 = call.in.bb4
    /\ call.in.turn = 0 => call.out.bbO = call.in.bbO
    /\ call.in.turn # 0 => call.out.bbX = call.in.bbX

\* A move of O applied.
C9_Witness ==
  /\ Played /\ call.in.turn = 1
  /\ call.out.bbO # call.in.bbO

\* C10: after solve on a non-terminal state with root metrics collected,
\* last_top_moves lists every legal move of the side to move exactly once in
\* heuristic order, and the two other lists have its length.
C10_RootMetricsComplete ==
  (Solved /\ collect_root_metrics_ /\ ~Terminal(call.in)) =>
    /\ top_moves_ = [i \in 1 .. Len(orderedMoves(call.in)) |->
                       orderedMoves(call.in)[i].move]
    /\ Len(top_move_plies_) = Len(top_moves_)
    /\ Len(top_move_wins_) = Len(top_moves_)

\* The state a cache key stands for.
KeyState(k) ==
  [bbA |-> k[1], bb2 |-> k[2], bb3 |-> k[3], bb4 |-> k[4],
   bbX |-> k[5], bbO |-> k[6], bbCollapsed |-> k[7], turn |-> k[8]]

\* C11: solve(s) returns the same Answer (win, best_move, plies) whatever
\* was solved before on the same Solver without clear_cache: the Answer is
\* the one a freshly constructed Solver returns for s.
C11_AnswerIgnoresCache ==
  Solved => call.out = solve(NewSolver, call.in).ans

\* A solve answered from the cache: an earlier position of the game is
\* still cached, and its solve had cached the state solved now.
C11_Witness ==
  /\ Solved /\ ~Terminal(call.in)
  /\ \E k \in DOMAIN cache_ :
       /\ k[7] # call.in.bbCollapsed
       /\ k[7] \subseteq call.in.bbCollapsed
       /\ StateKey(call.in) \in DOMAIN solve(NewSolver, KeyState(k)).sv.cache_

Hashed == call.op = "hash_state"

\* The seven bitboards folded, before turn is paired in.
fold7(s) ==
  fold_pair64(<< word(MaskValue(s.bbA)), word(MaskValue(s.bb2)),
                 word(MaskValue(s.bb3)), word(MaskValue(s.bb4)),
                 word(MaskValue(s.bbX)), word(MaskValue(s.bbO)),
                 word(MaskValue(s.bbCollapsed)) >>, 7, word(0))

\* C12: for the same seven bitboards hash_state with turn = 0 and with
\* turn = 1 return different keys: the last pair64 step yields values that
\* differ by one modulo 2^64, and mix64 keeps them apart.
C12_TurnChangesKey ==
  Hashed =>
    /\ call.out = hash_of(call.in, call.arg[1])
    /\ hash_of(call.in, 0) # hash_of(call.in, 1)
    /\ pair64(fold7(call.in), word(1))
         = add64(pair64(fold7(call.in), word(0)), word(1))

\* Keys computed where the seven bitboards fold to 0, so that turn = 1
\* takes the other branch of pair64, and where the fold has wrapped.
C12_Witness ==
  /\ Hashed /\ call.arg[1] = 1
  /\ \/ fold7(call.in) = word(0)
     \/ call.in.bbCollapsed = Cells /\ call.in.bbA # {}

EnumDone == enum.pc = "done"

\* The canonical states, said without the loops: X at cell 0, O at another
\* cell of the board, nothing collapsed on the board, the card masks a
\* partition of the board with PerCard cells for A, 2 and 3 and the rest for
\* 4 (PerCard again on a board of 4 * PerCard cells), either turn.
CanonCards ==
  {g \in (SUBSET EnumSet) \X (SUBSET EnumSet) \X (SUBSET EnumSet) :
     /\ Cardinality(g[1]) = PerCard
     /\ Cardinality(g[2]) = PerCard
     /\ Cardinality(g[3]) = PerCard
     /\ g[1] \cap g[2] = {} /\ g[1] \cap g[3] = {} /\ g[2] \cap g[3] = {}}

CanonSet ==
  {[bbA |-> g[1], bb2 |-> g[2], bb3 |-> g[3],
    bb4 |-> EnumSet \ (g[1] \cup g[2] \cup g[3]),
    bbX |-> bit(0), bbO |-> bit(o), bbCollapsed |-> collMask, turn |-> turn] :
     g \in CanonCards, o \in 1 .. (EnumCells - 1), turn \in {0, 1}}

\* The key of a state of the loop nest.
RootKey(s) ==
  CanonKeys[CHOOSE i \in 1 .. Len(CanonRoots) : CanonRoots[i] = s]

\* The (key, turn) of the canonical states of the shard (stride, offset).
ShardKeyTurns(stride, offset) ==
  {<<CanonKeys[i], CanonRoots[i].turn>> :
     i \in {j \in 1 .. Len(CanonRoots) :
              stride > 1 => mod64(CanonKeys[j], stride) = offset}}

\* The number of places of a sequence that hold x.
Count(seq, x) == Cardinality({i \in DOMAIN seq : seq[i] = x})

NoDuplicates(seq) == \A i, j \in DOMAIN seq : seq[i] = seq[j] => i = j

\* A run that started with an empty seen set and has no limit.
PlainRun == enum.preloaded = {} /\ enum.limit = 0

FileKeyTurns(name) == KeyTurns(file_records(files[name]))

\* C14: the seen set holds the (key, turn) of every complete record of the
\* output database and of every --seen file before a record is produced;
\* no record is produced for a (key, turn) preloaded, and no two records
\* of a run have the same (key, turn).
C14_SeenPreloaded ==
  /\ call.op = "load_seen" =>
       /\ enum.seen = FileKeyTurns("out")
                        \cup UNION {FileKeyTurns(enum.seenPaths[i]) :
                                      i \in DOMAIN enum.seenPaths}
       /\ enum.made = <<>> /\ enum.produced = 0
  /\ enum.pc \in {"start", "load"} => enum.made = <<>>
  /\ \A i \in DOMAIN enum.made : enum.made[i] \notin enum.preloaded
  /\ NoDuplicates(enum.made)

\* A run that found records in its own database and in a --seen file and
\* went on to produce others.
C14_Witness ==
  /\ EnumDone /\ enum.made # <<>> /\ enum.seenPaths # <<>>
  /\ \E kt \in enum.preloaded : kt \notin FileKeyTurns("other")
  /\ \E kt \in enum.preloaded : kt \in FileKeyTurns("other")

\* C15: with stride S > 1 and offset K a run over an empty database, with
\* no limit, produces a record for a canonical state iff key mod S = K; the
\* shards of the offsets 0 .. S-1 are pairwise disjoint and their union is
\* what the unsharded run produces.
C15_ShardByKey ==
  (EnumDone /\ PlainRun) =>
    /\ {enum.made[i] : i \in DOMAIN enum.made}
         = ShardKeyTurns(enum.stride, enum.offset)
    /\ \A k1, k2 \in 0 .. (enum.stride - 1) :
         k1 # k2 => ShardKeyTurns(enum.stride, k1)
                      \cap ShardKeyTurns(enum.stride, k2) = {}
    /\ UNION {ShardKeyTurns(enum.stride, k) : k \in 0 .. (enum.stride - 1)}
         = ShardKeyTurns(1, 0)

\* A sharded run that ended with some of the canonical states, not all.
C15_Witness ==
  /\ EnumDone /\ PlainRun /\ enum.stride > 1
  /\ enum.made # <<>>
  /\ Len(enum.made) < Len(CanonRoots)

\* C16: when the enumerator, run with no limit and no --seen file, is
\* killed at any point, also in the middle of appending a batch, and run
\* again until it returns, the database holds exactly one complete record
\* for every canonical (key, turn) of the shard; no state with a complete
\* record in the database is solved, and every record a kill took from the
\* buffer is solved once more.
C16_KillAndResume ==
  (enum.limit = 0 /\ enum.seenPaths = <<>>) =>
    /\ call.op = "solve" => <<RootKey(call.in), call.in.turn>>
                              \notin FileKeyTurns("out")
    /\ EnumDone =>
         /\ Len(files.out.bytes) % sizeof_Record = 0
         /\ NoDuplicates([i \in DOMAIN file_records(files.out) |->
                            KeyTurn(file_records(files.out)[i])])
         /\ FileKeyTurns("out") = ShardKeyTurns(enum.stride, enum.offset)
         /\ \A i \in 1 .. Len(CanonRoots) :
              <<CanonKeys[i], CanonRoots[i].turn>>
                  \in ShardKeyTurns(enum.stride, enum.offset)
                => Count(enum.history.log, CanonRoots[i])
                     = 1 + Count(enum.history.lost,
                                 <<CanonKeys[i], CanonRoots[i].turn>>)

\* A run that returned after a kill in the middle of a batch, one record
\* of the batch whole in the file and the next one torn.
C16_Witness ==
  /\ EnumDone /\ enum.limit = 0 /\ enum.seenPaths = <<>>
  /\ enum.history.kills >= 1
  /\ enum.history.cut > sizeof_Record
  /\ enum.history.cut % sizeof_Record # 0
  /\ enum.history.lost # <<>>

Truncated == call.op = "truncate_to_multiple_and_count"

\* C17: truncate_to_multiple_and_count shortens the database to
\* size - (size mod record_size), keeps the bytes before that point, leaves
\* a file of whole records untouched and returns the number of complete
\* records, 0 when the file does not exist.
C17_TruncateToRecords ==
  Truncated =>
    LET before == call.in
        recordSize == call.arg[1]
        size == Len(before.bytes)
    IN  /\ files.out = call.out.file
        /\ ~before.exists => (call.out.count = 0 /\ files.out = before)
        /\ before.exists =>
             /\ files.out.exists
             /\ Len(files.out.bytes) = size - (size % recordSize)
             /\ files.out.bytes = SubSeq(before.bytes, 1, Len(files.out.bytes))
             /\ (size % recordSize = 0) => files.out = before
             /\ call.out.count = size \div recordSize
             /\ call.out.count * recordSize = Len(files.out.bytes)

\* The startup of a run over a database with a whole record and a torn one.
C17_Witness ==
  /\ Truncated
  /\ Len(call.in.bytes) % call.arg[1] # 0
  /\ Len(call.in.bytes) > call.arg[1]
  /\ Len(files.out.bytes) < Len(call.in.bytes)

Flushed == call.op = "flush"

\* C18: every record appended to the database occupies exactly 16 bytes
\* (u64 key, u8 turn, u8 win, u8 best, u16 plies, 4 zero pad bytes); the
\* record size used to truncate and to read back is 16.
C18_RecordIs16Bytes ==
  /\ Flushed =>
       /\ sizeof_Record = 16
       /\ Len(files.out.bytes) = 16 * Len(file_records(files.out))
       /\ Len(files.out.bytes) - Len(call.in.bytes) = 16 * Len(call.arg)
       /\ \A i \in DOMAIN call.arg :
            record_bytes(call.arg[i])
              = call.arg[i].key
                \o << call.arg[i].turn, call.arg[i].win, call.arg[i].best,
                      call.arg[i].plies % BYTE, call.arg[i].plies \div BYTE,
                      0, 0, 0, 0 >>
  /\ Truncated => call.arg[1] = 16

Deduped == call.op = "dedup_database"

\* The places of a sequence of records that hold a (key, turn) for the
\* first time.
FirstPlaces(records) ==
  {i \in DOMAIN records :
     \A j \in 1 .. (i - 1) : KeyTurn(records[j]) # KeyTurn(records[i])}

Free(s) == Cells \ s.bbCollapsed

CliCalled == call.op = "cli"

\* The positions of the commas of an argument, and its fields: the
\* stretches between two commas, before the first and after the last.
Commas(arg) == {i \in 1 .. Len(arg) : arg[i] = ","}
FieldCount(arg) == Cardinality(Commas(arg)) + 1
CommaNo(arg, n) ==
  IF n = 0 THEN 0
  ELSE IF n > Cardinality(Commas(arg)) THEN Len(arg) + 1
  ELSE CHOOSE i \in Commas(arg) :
         Cardinality({j \in Commas(arg) : j < i}) = n - 1
Field(arg, k) == SubSeq(arg, CommaNo(arg, k - 1) + 1, CommaNo(arg, k) - 1)

\* What may stand before the digits of a hexadecimal numeral.
NumeralPrefixes ==
  {ws \o sg \o px : ws \in {<<>>, <<" ">>, <<"\t">>},
                    sg \in {<<>>, <<"+">>, <<"-">>},
                    px \in {<<>>, <<"0", "x">>, <<"0", "X">>}}

RECURSIVE NumberOf(_)
\* The number a string of hexadecimal digits denotes, U16 standing for
\* every number above 0xFFFF.
NumberOf(text) ==
  IF text = <<>> THEN 0
  ELSE LET front == NumberOf(SubSeq(text, 1, Len(text) - 1))
           n == (HEX * front) + digit_value(text[Len(text)])
       IN  IF front >= U16 \/ n >= U16 THEN U16 ELSE n

\* The readings of a field as a numeral: its sign and magnitude.
Readings(text) ==
  {[negative |-> "-" \in Range(pre),
    magnitude |-> NumberOf(SubSeq(text, Len(pre) + 1, Len(text)))] :
     pre \in {p \in NumeralPrefixes :
                /\ Len(p) < Len(text)
                /\ SubSeq(text, 1, Len(p)) = p
                /\ \A i \in (Len(p) + 1) .. Len(text) :
                     digit_value(text[i]) >= 0}}

\* The field is a hexadecimal numeral of a value in 0 .. 0xFFFF.
IsValue16(text) ==
  \E r \in Readings(text) : r.magnitude < U16 /\ (r.negative => r.magnitude = 0)
ValueOf(text) == (CHOOSE r \in Readings(text) : TRUE).magnitude

\* Exactly eight comma-separated hexadecimal values, each at most 0xFFFF.
WellFormedArg(arg) ==
  /\ FieldCount(arg) = STATE_PARTS
  /\ \A k \in 1 .. STATE_PARTS : IsValue16(Field(arg, k))

\* C21: cli called with --state ARG, where ARG is not exactly eight
\* comma-separated hexadecimal values each at most 0xFFFF, writes a message
\* to the error stream, exits with code 2 and never runs the solver.
C21_BadStateRejected ==
  (CliCalled /\ ~WellFormedArg(call.in)) =>
    /\ call.out.code = 2
    /\ call.out.err # ""
    /\ ~call.out.solved
    /\ cache_ = <<>>

\* C23: parse_state_arg on a string of eight comma-separated hexadecimal
\* values sets the bitboards a, 2, 3, 4, x, o, c to the first seven values
\* in that order and turn to the lowest bit of the eighth; a state written
\* as its eight 16-bit hexadecimal fields and parsed gives equal bitboards
\* and an equal turn.
C23_ParseStateArg ==
  (CliCalled /\ WellFormedArg(call.in)) =>
    /\ call.out.code = 0
    /\ MaskValue(state.bbA) = ValueOf(Field(call.in, 1))
    /\ MaskValue(state.bb2) = ValueOf(Field(call.in, 2))
    /\ MaskValue(state.bb3) = ValueOf(Field(call.in, 3))
    /\ MaskValue(state.bb4) = ValueOf(Field(call.in, 4))
    /\ MaskValue(state.bbX) = ValueOf(Field(call.in, 5))
    /\ MaskValue(state.bbO) = ValueOf(Field(call.in, 6))
    /\ MaskValue(state.bbCollapsed) = ValueOf(Field(call.in, 7))
    /\ state.turn = ValueOf(Field(call.in, 8)) % 2
    /\ (call.in = state_arg(call.arg[1])) => (state = call.arg[1])

\* A state with O to move written, parsed and solved.
C23_Witness ==
  /\ CliCalled /\ call.in = state_arg(call.arg[1])
  /\ call.out.code = 0 /\ call.out.solved
  /\ state.turn = 1 /\ state.bbCollapsed # {}

\* The cells where a walk of the query ends that passes over, or ends on,
\* the opponent's cell, less the cells where a walk ends that does not.
OnlyThroughOpponent ==
  {p[Len(p)] : p \in {w \in Walks(call.in.bbCollapsed, call.arg[1], call.arg[2]) :
                        call.arg[3] \in Range(w)}}
  \ {p[Len(p)] : p \in {w \in Walks(call.in.bbCollapsed, call.arg[1], call.arg[2]) :
                          call.arg[3] \notin Range(w)}}

\* C24: a path counted by enumerate_destinations may pass through the
\* opponent's cell: a cell reached in exactly `steps` steps only by paths
\* that cross the opponent's cell is returned as a destination; only landing
\* on the opponent's cell is excluded.
C24_PassThroughOpponent ==
  (Enumerated /\ call.arg[2] >= 1 /\ call.arg[3] # call.arg[1]) =>
    /\ (OnlyThroughOpponent \ {call.arg[3]}) \subseteq call.out
    /\ call.arg[3] \notin call.out

\* A query with a destination that every walk reaches over the opponent.
C24_Witness ==
  /\ Enumerated /\ call.arg[2] >= 2 /\ call.arg[3] # call.arg[1]
  /\ OnlyThroughOpponent \ {call.arg[3]} # {}
  /\ (OnlyThroughOpponent \ {call.arg[3]}) \subseteq call.out

\* The number of replies the opponent has after the move to a cell.
ReplyCount(s, to) ==
  Cardinality(Successors(apply_move(s, currentPlayerIndex(s), to)))

\* The rank of a move in the heuristic: one reply first, then by count.
Rank(s, to) == IF ReplyCount(s, to) = 1 THEN -1 ELSE ReplyCount(s, to)

\* The move to a is examined before the move to b.
Before(s, a, b) ==
  \/ Rank(s, a) < Rank(s, b)
  \/ Rank(s, a) = Rank(s, b) /\ a < b

\* The destinations of the side to move in the order of examination.
HeuristicOrder(s) ==
  [i \in 1 .. Cardinality(destinationsMask(s)) |->
     CHOOSE c \in destinationsMask(s) :
       Cardinality({d \in destinationsMask(s) : Before(s, d, c)}) = i - 1]

\* The encoded moves and the successor keys in the order of examination.
HeuristicMoves(s) ==
  [i \in 1 .. Len(HeuristicOrder(s)) |->
     encode_move(currentPlayerIndex(s), HeuristicOrder(s)[i])]
HeuristicKeys(s) ==
  [i \in 1 .. Len(HeuristicOrder(s)) |->
     StateKey(apply_move(s, currentPlayerIndex(s), HeuristicOrder(s)[i]))]

IsPrefix(a, b) == Len(a) <= Len(b) /\ a = SubSeq(b, 1, Len(a))

MetricsComputed == call.op = "compute_root_move_metrics"

\* C28: the candidate moves of a state are examined with the moves that
\* leave the opponent exactly one reply first, then the other moves by
\* ascending number of replies (zero replies after one reply), moves of
\* equal rank in ascending destination index.  The order is read from the
\* root lists (all the moves after compute_root_move_metrics, the moves
\* examined after solve) and from the edge list of every evaluated state.
C28_ExaminationOrder ==
  /\ (MetricsComputed /\ OnePiece(call.in)) =>
       top_moves_ = HeuristicMoves(call.in)
  /\ (Solved /\ OnePiece(call.in) /\ collect_root_metrics_) =>
       IsPrefix(top_moves_, HeuristicMoves(call.in))
  /\ capture_edges_ =>
       \A k \in DOMAIN edges_ : IsPrefix(edges_[k], HeuristicKeys(KeyState(k)))

\* All the moves of a state were listed: one that leaves no reply, one that
\* leaves one reply, and two of equal rank.
C28_Witness ==
  /\ MetricsComputed /\ OnePiece(call.in)
  /\ top_moves_ = HeuristicMoves(call.in)
  /\ \E a, b \in destinationsMask(call.in) :
       ReplyCount(call.in, a) = 0 /\ ReplyCount(call.in, b) = 1
  /\ \E a, b \in destinationsMask(call.in) :
       a # b /\ Rank(call.in, a) = Rank(call.in, b)

RECURSIVE SolvedAs(_)
\* The answers to the states after the opponent's replies to a move.
ReplyAnswers(s, to) ==
  {SolvedAs(r) : r \in Successors(apply_move(s, currentPlayerIndex(s), to))}

\* The move wins: every reply is answered by a win of the mover.
Wins(s, to) == \A a \in ReplyAnswers(s, to) : a.win

WinPlies(s, to) ==
  IF ReplyAnswers(s, to) = {} THEN 1
  ELSE Max({a.plies + 2 : a \in ReplyAnswers(s, to)})

\* best_loss_plies of a move that does not win.
LossPlies(s, to) ==
  Min({a.plies + 2 : a \in {b \in ReplyAnswers(s, to) : ~b.win}})

HasWinningMove(s) == \E to \in destinationsMask(s) : Wins(s, to)

\* The place in the heuristic order of the first move that wins.
FirstWinning(s) ==
  Min({i \in DOMAIN HeuristicOrder(s) : Wins(s, HeuristicOrder(s)[i])})

\* The place in the heuristic order of the first move that loses latest.
FirstLatest(s) ==
  LET latest == Max({LossPlies(s, to) : to \in destinationsMask(s)})
  IN  Min({i \in DOMAIN HeuristicOrder(s) :
             LossPlies(s, HeuristicOrder(s)[i]) = latest})

\* The answer to s as the rules of the first winning move and of the
\* latest defeat give it.
SolvedAs(s) ==
  IF Terminal(s) THEN [win |-> FALSE, best_move |-> NO_MOVE, plies |-> 0]
  ELSE IF HasWinningMove(s)
  THEN [win |-> TRUE,
        best_move |-> HeuristicMoves(s)[FirstWinning(s)],
        plies |-> WinPlies(s, HeuristicOrder(s)[FirstWinning(s)])]
  ELSE [win |-> FALSE,
        best_move |-> HeuristicMoves(s)[FirstLatest(s)],
        plies |-> LossPlies(s, HeuristicOrder(s)[FirstLatest(s)])]

\* The root of the last solve is a position of the game.
SolvedRoot ==
  /\ Solved /\ OnePiece(call.in)
  /\ (call.in.bbX \cup call.in.bbO) \cap call.in.bbCollapsed = {}

C27_LatestDefeat ==
  (SolvedRoot /\ ~Terminal(call.in) /\ ~HasWinningMove(call.in)) =>
    /\ call.out = SolvedAs(call.in)
    /\ ~call.out.win
    /\ call.out.plies =
         Max({LossPlies(call.in, to) : to \in destinationsMask(call.in)})

\* A lost state with two moves that lose equally late, and one that loses
\* sooner.
C27_Witness ==
  /\ SolvedRoot /\ ~Terminal(call.in) /\ ~HasWinningMove(call.in)
  /\ call.out = SolvedAs(call.in)
  /\ \E a, b \in destinationsMask(call.in) :
       /\ a # b
       /\ LossPlies(call.in, a) = call.out.plies
       /\ LossPlies(call.in, b) = call.out.plies
  /\ \E c \in destinationsMask(call.in) :
       LossPlies(call.in, c) < call.out.plies

\* The number of moves of s that solve_rec examines: up to the first
\* winning move, or all of them.
Examined(s) ==
  IF cache_[StateKey(s)].win
  THEN CHOOSE i \in DOMAIN HeuristicMoves(s) :
         HeuristicMoves(s)[i] = cache_[StateKey(s)].best_move
  ELSE Len(HeuristicMoves(s))

\* C29: with edge capture enabled, once solve has returned, every state
\* that is not terminal and was evaluated (it has a cache entry) has as its
\* edge list the keys of the successors of the moves examined for it, in
\* the order of examination and without repetition; a terminal state has
\* no edge list.  With capture disabled the edge map stays empty.
C29_EdgesAreExaminedMoves ==
  /\ (Solved /\ capture_edges_) =>
       \A k \in DOMAIN cache_ :
         IF Terminal(KeyState(k)) THEN k \notin DOMAIN edges_
         ELSE /\ k \in DOMAIN edges_
              /\ edges_[k] = SubSeq(HeuristicKeys(KeyState(k)), 1,
                                    Examined(KeyState(k)))
              /\ NoDuplicates(edges_[k])
  /\ ~capture_edges_ => edges_ = <<>>

\* A solve that evaluated a terminal state, a state with all its moves
\* examined and a state left at a winning move before its last candidate.
C29_Witness ==
  /\ Solved /\ capture_edges_
  /\ \E k \in DOMAIN cache_ : Terminal(KeyState(k)) /\ k \notin DOMAIN edges_
  /\ \E k \in DOMAIN edges_ :
       /\ ~cache_[k].win
       /\ Len(edges_[k]) >= 2
       /\ edges_[k] = HeuristicKeys(KeyState(k))
  /\ \E k \in DOMAIN edges_ :
       /\ cache_[k].win
       /\ Len(edges_[k]) >= 2
       /\ Len(edges_[k]) < Len(HeuristicKeys(KeyState(k)))

\* C30: whenever solve has returned, every key of the edge map has an
\* entry in the cache, so the edge map has no more keys than the cache;
\* clear_cache empties the cache, the edge map and the three root lists.
C30_EdgesWithinCache ==
  /\ Solved =>
       /\ DOMAIN edges_ \subseteq DOMAIN cache_
       /\ Cardinality(DOMAIN edges_) <= Cardinality(DOMAIN cache_)
  /\ call.op = "clear_cache" =>
       /\ DOMAIN cache_ = {}
       /\ DOMAIN edges_ = {}
       /\ top_moves_ = <<>>
       /\ top_move_plies_ = <<>>
       /\ top_move_wins_ = <<>>

\* A solve that left edge lists, all of cached states, and fewer of them
\* than cache entries.
C30_Witness ==
  /\ Solved
  /\ DOMAIN edges_ # {}
  /\ DOMAIN edges_ \subseteq DOMAIN cache_
  /\ DOMAIN edges_ # DOMAIN cache_
  /\ top_moves_ # <<>>

GameOn == call.op \in {"root", "game"}

\* C25: in every state reached by legal moves from a canonical root
\* (nothing collapsed, X and O on distinct cells) posX and posO are one bit
\* each and disjoint, neither piece stands on a collapsed cell, the four
\* card masks are the root's, and turn is 0 or 1.
C25_ReachableStates ==
  GameOn =>
    /\ Cardinality(state.bbX) = 1
    /\ Cardinality(state.bbO) = 1
    /\ state.bbX \cap state.bbO = {}
    /\ (state.bbX \cup state.bbO) \cap state.bbCollapsed = {}
    /\ state.bbA = call.in.bbA
    /\ state.bb2 = call.in.bb2
    /\ state.bb3 = call.in.bb3
    /\ state.bb4 = call.in.bb4
    /\ state.turn \in {0, 1}

\* The end of a game of four moves or more: both pieces moved, the cells
\* they left collapsed, the side to move without a destination.
C25_Witness ==
  /\ call.op = "game"
  /\ Cardinality(state.bbCollapsed) >= 4
  /\ Terminal(state)
  /\ state.bbX # call.in.bbX
  /\ state.bbO # call.in.bbO
  /\ (call.in.bbX \cup call.in.bbO) \subseteq state.bbCollapsed
  /\ Cardinality(state.bbX) = 1 /\ Cardinality(state.bbO) = 1
  /\ (state.bbX \cup state.bbO) \cap state.bbCollapsed = {}

\* The last run was of a derivation tool given a database it cannot open.
IndexRun == call.op \in {"gen_index", "list_derivations"}
DbNotOpened == IndexRun /\ ~call.in.db.exists

\* C22: when the solved database cannot be opened, gen_index and
\* list_derivations report the path, exit with a non-zero status and write
\* no output record.
C22_UnopenableDb ==
  DbNotOpened =>
    /\ \E i \in DOMAIN call.out.err : call.out.err[i][2] = "db"
    /\ call.out.code # 0
    /\ call.out.log = <<>>
    /\ files = call.in

\* The cells of s that are in no card mask.
NoCard(s) == Cells \ (s.bbA \cup s.bb2 \cup s.bb3 \cup s.bb4)

\* s with the cells that are in no card mask dealt as A.
AsAce(s) == [s EXCEPT !.bbA = @ \cup NoCard(s)]

\* C36: steps_from returns 1, 2, 3 or 4 according to which of bbA, bb2,
\* bb3, bb4 has the cell, and 1 when no card mask has it; a state with a
\* cell in no card mask is solved as if that cell were an A.
C36_StepsFrom ==
  Solved =>
    /\ \A c \in Cells :
         /\ steps_from(call.in, c) \in 1 .. 4
         /\ c \in call.in.bbA => steps_from(call.in, c) = 1
         /\ c \in call.in.bb2 => steps_from(call.in, c) = 2
         /\ c \in call.in.bb3 => steps_from(call.in, c) = 3
         /\ c \in call.in.bb4 => steps_from(call.in, c) = 4
         /\ c \in NoCard(call.in) => steps_from(call.in, c) = 1
    /\ NoCard(call.in) # {} =>
         /\ call.out = solve(NewSolver, AsAce(call.in)).ans
         /\ destinationsMask(call.in) = destinationsMask(AsAce(call.in))

\* A solved state whose side to move stands on a cell in no card mask and
\* has a move.
C36_Witness ==
  /\ Solved /\ ~Terminal(call.in)
  /\ currentPlayerIndex(call.in) \in NoCard(call.in)
  /\ currentPlayerIndex(call.in) \notin call.in.bbCollapsed
  /\ steps_from(call.in, currentPlayerIndex(call.in)) = 1
  /\ call.out = solve(NewSolver, AsAce(call.in)).ans

\* ---- C31 ----
Dumped == call.op \in {"dump_tree_binary", "dump_tree_binary_to_vector"}
DumpWritten == Dumped /\ "node_count" \in DOMAIN call.out

RECURSIVE InsertedBy(_, _)
RECURSIVE InsertedByReplies(_, _, _, _)
RECURSIVE InsertedByMoves(_, _, _)
\* The keys emplaced so far, then those the replies from the i-th on add.
InsertedByReplies(keys, nextState, replies, i) ==
  IF i > Len(replies) THEN keys
  ELSE InsertedByReplies(
         InsertedBy(keys, apply_move(nextState,
                                     currentPlayerIndex(nextState),
                                     replies[i])),
         nextState, replies, i + 1)

\* The keys emplaced so far, then those the examined moves from the i-th
\* on add.
InsertedByMoves(keys, s, i) ==
  IF i > Examined(s) THEN keys
  ELSE InsertedByMoves(
         InsertedByReplies(keys, after_move(s, HeuristicMoves(s)[i]),
                           MaskOrder(destinationsMask(
                             after_move(s, HeuristicMoves(s)[i]))), 1),
         s, i + 1)

\* The keys emplaced so far, then those the search below s adds: a state
\* is emplaced when its evaluation returns, after its descendants.
InsertedBy(keys, s) ==
  IF StateKey(s) \in Range(keys) THEN keys
  ELSE IF Terminal(s) THEN Append(keys, StateKey(s))
  ELSE Append(InsertedByMoves(keys, s, 1), StateKey(s))

\* The keys of the cache in the order of their insertion.
InsertionOrder == IF cache_ = <<>> THEN <<>> ELSE InsertedBy(<<>>, state)

\* The reference order lists the cache: every key once.
InsertionOrderListsCache ==
  /\ Range(InsertionOrder) = DOMAIN cache_
  /\ Len(InsertionOrder) = Cardinality(DOMAIN cache_)

\* C31: a dump holds node_count = the number of cache entries, then one
\* node per cache entry, in the order in which the keys were inserted into
\* the cache.
C31_DumpInInsertionOrder ==
  DumpWritten =>
    /\ call.out.node_count = Cardinality(DOMAIN cache_)
    /\ Len(call.out.nodes) = call.out.node_count
    /\ {call.out.nodes[i].key : i \in 1 .. Len(call.out.nodes)}
         = DOMAIN cache_
    /\ [i \in 1 .. Len(call.out.nodes) |-> call.out.nodes[i].key]
         = InsertionOrder

\* The part of C31 that holds: the count and one node per cache entry.
C31_OneNodePerEntry ==
  DumpWritten =>
    /\ call.out.node_count = Cardinality(DOMAIN cache_)
    /\ Len(call.out.nodes) = call.out.node_count
    /\ {call.out.nodes[i].key : i \in 1 .. Len(call.out.nodes)}
         = DOMAIN cache_
    /\ \A i \in 1 .. Len(call.out.nodes) :
         call.out.nodes[i] = dump_node(SolverObject, call.out.nodes[i].key)

\* A dump of two nodes or more is written.
C31_Witness == DumpWritten /\ call.out.node_count >= 2

\* ---- C39 ----
\* The positions of the returned best_move in last_top_moves().
BestPositions ==
  {i \in 1 .. Len(top_moves_) : top_moves_[i] = call.out.best_move}

\* solve has returned for a non-terminal state with the root metrics
\* collected.
SolvedWithMetrics ==
  Solved /\ collect_root_metrics_ /\ ~Terminal(call.in)

\* C39: after solve(s) for a non-terminal state with root-metric collection
\* enabled, evaluated or found in the cache, the returned best_move occurs
\* in last_top_moves() and the entries of last_top_move_plies() and
\* last_top_move_wins() at its position equal the returned plies and win.
C39_BestMoveInTopMoves ==
  SolvedWithMetrics =>
    /\ BestPositions # {}
    /\ Len(top_move_plies_) = Len(top_moves_)
    /\ Len(top_move_wins_) = Len(top_moves_)
    /\ \A i \in BestPositions :
         /\ top_move_plies_[i] = call.out.plies
         /\ top_move_wins_[i] = (IF call.out.win THEN 1 ELSE 0)

\* A root found in the cache: the winning move is not the last entry, as
\* it is when the root is evaluated and the loop stops at it.
C39_Witness ==
  /\ SolvedWithMetrics
  /\ call.out.win
  /\ top_moves_[Len(top_moves_)] # call.out.best_move

\* ---- C38 ----
\* The child keys of all the edge lists.
ChildKeys ==
  UNION {Range(edges_[k]) : k \in DOMAIN edges_}

\* The side to move of the state a key stands for.
KeyTurn8(k) == KeyState(k).turn

\* C38: after solve(root) on a freshly cleared solver every cached state
\* has the same side to move as root, so no child key of the edge lists is
\* a cache key or the key of a node of the tree dump.
C38_ChildKeysNotCached ==
  /\ \A k \in DOMAIN cache_ : KeyTurn8(k) = state.turn
  /\ \A c \in ChildKeys : KeyTurn8(c) # state.turn
  /\ ChildKeys \cap DOMAIN cache_ = {}
  /\ DumpWritten =>
       \A i \in 1 .. Len(call.out.nodes) :
         /\ call.out.nodes[i].key \notin ChildKeys
         /\ \A j \in 1 .. Len(call.out.nodes) :
              call.out.nodes[i].key \notin Range(call.out.nodes[j].edges)

\* A dump whose nodes have edges.
C38_Witness ==
  /\ DumpWritten
  /\ call.out.node_count >= 3
  /\ \E i \in 1 .. Len(call.out.nodes) : call.out.nodes[i].edge_count >= 2

\* ---- C34 ----
\* gen_index has run and appended to the index.
IndexAppended ==
  /\ call.op = "gen_index"
  /\ files.index.exists
  /\ files.index.bytes # call.in.index.bytes

\* The (key, turn) of the whole records of an index, in file order.
IndexKeyTurns(file) ==
  [n \in 1 .. Len(idx_records(file, GEN_INDEX_PACKED)) |->
     KeyTurn(idx_records(file, GEN_INDEX_PACKED)[n])]

\* The index is whole records, none of them twice, after the complete
\* records it held at startup.
IndexWellFormed ==
  /\ Len(files.index.bytes) % sizeof_IdxRec(GEN_INDEX_PACKED) = 0
  /\ NoDuplicates(IndexKeyTurns(files.index))
  /\ IsPrefix(IndexKeyTurns(call.in.index), IndexKeyTurns(files.index))

\* C34: gen_index truncates a partial trailing record of the index to a
\* whole 24-byte boundary at startup and treats the complete records as
\* already produced, so every appended record starts on a record boundary
\* and is written at most once for each (key, turn) not already in the
\* index.
C34_AppendOnRecordBoundary == IndexAppended => IndexWellFormed

\* The part of C34 that holds: an index of whole records stays one.
C34_WholeIndexStaysWhole ==
  (/\ IndexAppended
   /\ Len(call.in.index.bytes) % sizeof_IdxRec(GEN_INDEX_PACKED) = 0
   /\ NoDuplicates(IndexKeyTurns(call.in.index)))
    => IndexWellFormed

\* Records appended to an index that ended in a partial record.
C34_Witness ==
  /\ IndexAppended
  /\ Len(call.in.index.bytes) % sizeof_IdxRec(GEN_INDEX_PACKED) # 0

\* ---- C35 ----
\* list_derivations has read the database and the index.
IndexListed == call.op = "list_derivations" /\ call.out.code = 0

\* The key, the turn and the bitboards of an index record.
IdxContent(rec) ==
  <<rec.key, rec.turn, rec.a, rec.b2, rec.b3, rec.b4, rec.x, rec.o, rec.c>>

\* The index as gen_index writes it and as list_derivations reads it.
IndexAsWritten == idx_records(call.in.index, GEN_INDEX_PACKED)
IndexAsRead == idx_records(call.in.index, LIST_DERIVATIONS_PACKED)

\* The roots list_derivations looks up.
RootsListed ==
  SubSeq(file_records(call.in.db), 1, roots_read(call.in.db, call.arg[1]))

\* C35: list_derivations reads the index with the 24-byte layout gen_index
\* writes, so the n-th record read has the key, the turn and the bitboards
\* of the n-th record written.
C35_SameIndexLayout ==
  IndexListed =>
    /\ sizeof_IdxRec(LIST_DERIVATIONS_PACKED) = sizeof_IdxRec(GEN_INDEX_PACKED)
    /\ Len(IndexAsRead) = Len(IndexAsWritten)
    /\ \A n \in 1 .. Len(IndexAsWritten) :
         IdxContent(IndexAsRead[n]) = IdxContent(IndexAsWritten[n])
    /\ \A i \in 1 .. Len(RootsListed) :
         KeyTurn(RootsListed[i]) \in KeyTurns(IndexAsWritten)
           => call.out.log[i] # [line |-> "missing index",
                                 key |-> key_string(RootsListed[i].key,
                                                    RootsListed[i].turn)]

\* A root that gen_index indexed is listed.
C35_Witness ==
  /\ IndexListed
  /\ \E i \in 1 .. Len(RootsListed) :
       KeyTurn(RootsListed[i]) \in KeyTurns(IndexAsWritten)

\* ---- C37 ----
Dealt == call.op = "random_deal"

\* The card masks of a state, A, 2, 3, 4.
CardMasks(s) == <<s.bbA, s.bb2, s.bb3, s.bb4>>

\* The cells of a state in no card mask.
Unmasked(s) == Cells \ (s.bbA \cup s.bb2 \cup s.bb3 \cup s.bb4)

\* C37: random_deal(seed) completes for every seed and returns a state
\* with pairwise disjoint card masks, 4 cells in bbA, 4 in bb2, 4 in bb3,
\* 2 in bb4, two cells in no mask, X and O on distinct cells, nothing
\* collapsed and X to move.
C37_RandomDeal ==
  Dealt =>
    /\ call.out.completed
    /\ \A i, j \in 1 .. 4 :
         i # j => CardMasks(state)[i] \cap CardMasks(state)[j] = {}
    /\ Cardinality(state.bbA) = 4
    /\ Cardinality(state.bb2) = 4
    /\ Cardinality(state.bb3) = 4
    /\ Cardinality(state.bb4) = 2
    /\ Cardinality(Unmasked(state)) = 2
    /\ OnePiece(state)
    /\ state.bbCollapsed = {}
    /\ state.turn = 0

\* The part of C37 that holds when random_deal returns: every cell is in
\* exactly one card mask, X and O are on distinct cells, nothing is
\* collapsed and X is to move.
C37_WhenItReturns ==
  (Dealt /\ call.out.completed) =>
    /\ \A i, j \in 1 .. 4 :
         i # j => CardMasks(state)[i] \cap CardMasks(state)[j] = {}
    /\ Unmasked(state) = {}
    /\ Cardinality(state.bbA) >= 4
    /\ Cardinality(state.bb2) >= 4
    /\ Cardinality(state.bb3) >= 4
    /\ Cardinality(state.bb4) >= 2
    /\ OnePiece(state)
    /\ state.bbCollapsed = {}
    /\ state.turn = 0

\* The first fourteen cells take the fourteen cards and the division for
\* the fifteenth is by zero.
C37_FourteenCards ==
  (Dealt /\ ~call.out.completed) =>
    /\ Cardinality(state.bbA) = 4
    /\ Cardinality(state.bb2) = 4
    /\ Cardinality(state.bb3) = 4
    /\ Cardinality(state.bb4) = 2
    /\ Unmasked(state) = {14, 15}

\* random_deal has returned a state.
C37_Witness == Dealt /\ call.out.completed

\* ---- C32 ----
\* The enumerator has solved a root and written its tree dump.
RootDumped ==
  /\ call.op = "solve"
  /\ enum.pc # "none"
  /\ "node_count" \in DOMAIN call.dump

\* The keys of the nodes of the root's dump.
DumpKeys ==
  {call.dump.nodes[i].key : i \in 1 .. Len(call.dump.nodes)}

\* C32: in the enumerator the solver's cache and edge map are empty at the
\* start of every root's solve, clear_cache having run after every produced
\* record, so each per-root tree dump holds only the states evaluated while
\* solving that root, the root included.
C32_DumpOfOneRoot ==
  /\ enum.pc # "none" => (cache_ = <<>> /\ edges_ = <<>>)
  /\ RootDumped =>
       /\ StateKey(call.in) \in DumpKeys
       /\ DumpKeys = DOMAIN solve(NewSolver, call.in).sv.cache_
       /\ call.dump.node_count = Cardinality(DumpKeys)
       /\ \A i \in 1 .. Len(call.dump.nodes) :
            call.dump.nodes[i]
              = dump_node(solve(NewSolver, call.in).sv,
                          call.dump.nodes[i].key)

\* The dump of a root solved after another root in the same process.
C32_Witness ==
  /\ RootDumped
  /\ Len(enum.solved) >= 2
  /\ \E i \in 1 .. Len(call.dump.nodes) : call.dump.nodes[i].edge_count >= 1

\* ---- C33 ----
\* The Records produced by the process, in the order of production.
MadeRecords ==
  [i \in 1 .. Len(enum.solved) |->
     make_record(RootKey(enum.solved[i]), enum.solved[i].turn,
                 solve(NewSolver, enum.solved[i]).ans)]

\* The bytes of the database after the records it held at startup.
BytesOfThisRun ==
  SubSeq(files.out.bytes, enum.existingCount * sizeof_Record + 1,
         Len(files.out.bytes))

\* A step of the running enumerator leaves the database alone or appends
\* the whole buffer to it, when the buffer has reached the batch size, the
\* limit is reached or the walk has ended.
AppendsWholeBatches ==
  (enum.pc \in {"load", "loop", "flush"} /\ enum'.pc # "dead") =>
    \/ files'.out = files.out
    \/ /\ enum.pc = "flush"
       /\ enum.buf # <<>>
       /\ \/ Len(enum.buf) >= enum.batch
          \/ enum.after = "done"
       /\ files'.out.bytes
            = files.out.bytes \o buffer_bytes(enum.buf, Len(enum.buf))
       /\ enum'.buf = <<>>

\* The state of the enumerator as C33 describes it.
ProducedInOrder ==
  /\ (enum.pc \in {"loop", "flush", "done"} /\ enum.limit > 0)
       => (enum.produced <= enum.limit /\ Len(enum.made) <= enum.limit)
  /\ enum.pc \in {"loop", "flush", "done"}
       => /\ enum.produced = Len(enum.made)
          /\ IsPrefix(BytesOfThisRun,
                      buffer_bytes(MadeRecords, Len(MadeRecords)))
          /\ Len(BytesOfThisRun) % sizeof_Record = 0
  /\ enum.pc = "done"
       => BytesOfThisRun = buffer_bytes(MadeRecords, Len(MadeRecords))

\* C33: the enumerator appends only whole buffered batches, when the buffer
\* reaches the batch size and once more when the walk ends or the limit is
\* reached, and never rewrites bytes already in the file: after a normal
\* exit the file is its truncated startup content followed by every record
\* produced in this run, in production order; at most limit records are
\* produced when limit > 0.
C33_AppendOnlyBatches == []ProducedInOrder /\ [][AppendsWholeBatches]_vars

\* A run with a limit that returned after a full batch and a partial one
\* were appended to a database that held records at startup.
C33_Witness ==
  /\ enum.pc = "done"
  /\ enum.limit > 0
  /\ enum.existingCount >= 1
  /\ enum.produced = enum.limit
  /\ enum.produced > enum.batch

=============================================================================
